---- MODULE Spec2Model ----
(***************************************************************************)
(* The provider resolution engine and the predicate algebra of the         *)
(* repository (provider_basics.py): request checkers, their construction,  *)
(* ValueProvider, ConcatProvider and ChainingProvider; and the structural  *)
(* name layout (name_layout/component.py): field mapping, validation, gap  *)
(* filling, extra moves and extra policies.                                *)
(*                                                                         *)
(* A call of check_request / apply_provider is modelled by its outcome:    *)
(* what it returns or raises, together with the ordered log of every       *)
(* nested call it made (`calls`), so that "is evaluated" / "is invoked"    *)
(* are observable.                                                         *)
(***************************************************************************)
EXTENDS Integers, Sequences, FiniteSets, TLC

VARIABLES
    provider,   \* the configured provider under resolution
    checker,    \* the configured request checker
    pred,       \* the specification a request checker is created from
    layout,     \* the name layout request: shape, schema, direction
    request,    \* the request of the last call
    mediator,   \* the mediator of the last call
    sieves,     \* the sieves made for a shape and the factory calls so far
    compiler,   \* the module-wide counter, its lock and the calling threads
    figure,     \* the arguments a figure is constructed from
    hierarchy,  \* the class of a factory instance: its bases and their recipes
    outcome     \* what the last call returned or raised, with its call log

vars == <<provider, checker, pred, layout, request, mediator, sieves, compiler,
          figure, hierarchy, outcome>>

\* the components a call does not touch
others == <<sieves, compiler, figure, hierarchy>>

\* no sieves maker, compiler, figure or factory class takes part
NoSieves == [kind |-> "none"]
NoCompiler == [kind |-> "none"]
NoFigure == [kind |-> "none"]
NoHierarchy == [kind |-> "none"]

OthersIdle ==
    /\ sieves = NoSieves
    /\ compiler = NoCompiler
    /\ figure = NoFigure
    /\ hierarchy = NoHierarchy

----------------------------------------------------------------------------
\* Bounds of the model

\* longest provider list of a ConcatProvider
MaxProviders == 3
\* longest checker list of an Or / And / StackEnd checker
MaxCheckers == 3
\* longest mediator.request_stack
MaxStack == 3
\* routines (loaders, dumpers) map 0..MaxData to 0..MaxData
MaxData == 1

----------------------------------------------------------------------------
\* Values shared by providers and checkers

SeqsUpTo(S, n) == UNION {[1..k -> S] : k \in 0..n}

IsPrefix(s, t) == Len(s) <= Len(t) /\ SubSeq(t, 1, Len(s)) = s

\* CannotProvide(message, sub_errors, is_terminal, is_demonstrative)
CannotProvide(message, sub_errors, is_terminal, is_demonstrative) ==
    [message |-> message, sub_errors |-> sub_errors,
     is_terminal |-> is_terminal, is_demonstrative |-> is_demonstrative]

\* `raise CannotProvide`: no message, no sub-errors, no flags
EmptyCannotProvide == CannotProvide("", <<>>, FALSE, FALSE)

\* outcomes of a call: normal return, CannotProvide raised, ValueError raised
Returned(value, calls) == [kind |-> "return", value |-> value, calls |-> calls]

Raised(error, calls) == [kind |-> "CannotProvide", error |-> error, calls |-> calls]

RaisedValueError(calls) == [kind |-> "ValueError", calls |-> calls]

\* one entry of a call log: the operation and the position (index path from
\* the root of the configured tree) of the object it was called on
Call(op, at) == [op |-> op, at |-> at]

WithCallsBefore(calls, r) == [r EXCEPT !.calls = calls \o @]

\* Request classes: Request is the base class of the two concrete ones
RequestClasses == {"LoaderRequest", "DumperRequest"}

IsInstance(req, cls) == cls = "Request" \/ req.cls = cls

\* the field names of request locations, and those checkers ask for
FieldNames == {"a", "c"}

CheckerFieldNames == {"a", "b"}

NoLoc == [kind |-> "none", name |-> ""]

Locations ==
    {[kind |-> "TypeHintLocation", name |-> ""]}
    \cup {[kind |-> "FieldLocation", name |-> n] : n \in FieldNames}

\* a request is a plain Request or a LocatedRequest carrying a location
Requests ==
    {[cls |-> c, located |-> FALSE, loc |-> NoLoc] : c \in RequestClasses}
    \cup {[cls |-> c, located |-> TRUE, loc |-> l] : c \in RequestClasses, l \in Locations}

PlainRequests == {r \in Requests : ~r.located}

NoRequest == [cls |-> "none", located |-> FALSE, loc |-> NoLoc]

NoProvider == [kind |-> "none"]

NoChecker == [kind |-> "none"]

NoPred == [kind |-> "none"]

NoLayout == [kind |-> "none"]

NotCalled == [kind |-> "none", calls |-> <<>>]

\* a mediator: its request stack (oldest first) and what provide_from_next
\* gives for the request being resolved
Mediator(request_stack, next) == [request_stack |-> request_stack, next |-> next]

NoMediator == Mediator(<<>>, NotCalled)

----------------------------------------------------------------------------
\* Providers

Data == 0..MaxData

Routines == [Data -> Data]

ValueProvider(request_cls, value) ==
    [kind |-> "Value", request_cls |-> request_cls, value |-> value]

\* a leaf provider that declines every request with the given error
DecliningProvider(error) == [kind |-> "Declining", error |-> error]

ConcatProvider(providers) == [kind |-> "Concat", providers |-> providers]

ChainingProvider(chain, p) == [kind |-> "Chaining", chain |-> chain, provider |-> p]

\* ValueProvider.apply_provider
ValueProviderApply(p, req) ==
    IF ~IsInstance(req, p.request_cls)
    THEN Raised(EmptyCannotProvide, <<>>)
    ELSE Returned(p.value, <<>>)

\* ChainingProvider._make_chain: chain_processor(data) = second(first(data))
MakeChainSwapped(first, second) == [data \in Data |-> first[second[data]]]

MakeChain(first, second) == [data \in Data |-> second[first[data]]]

RECURSIVE ApplyProvider(_, _, _, _)
RECURSIVE ConcatLoop(_, _, _, _, _, _, _)
RECURSIVE ConcatLoopLastWins(_, _, _, _, _, _, _)
RECURSIVE ConcatLoopErrorsReversed(_, _, _, _, _, _, _)

\* faulty variant: the loop goes on after a success and the last success wins
ConcatLoopLastWins(providers, i, errors, calls, at, med, req) ==
    IF i > Len(providers)
    THEN Raised(CannotProvide("", errors, FALSE, FALSE), calls)
    ELSE LET r == ApplyProvider(providers[i], Append(at, i), med, req)
             rest == ConcatLoopLastWins(providers, i + 1,
                         IF r.kind = "CannotProvide" THEN Append(errors, r.error) ELSE errors,
                         calls \o r.calls, at, med, req)
         IN  IF r.kind = "CannotProvide" \/ rest.kind = "return"
             THEN rest
             ELSE WithCallsBefore(calls, r)

\* faulty variant: errors are collected newest first
ConcatLoopErrorsReversed(providers, i, errors, calls, at, med, req) ==
    IF i > Len(providers)
    THEN Raised(CannotProvide("", errors, FALSE, FALSE), calls)
    ELSE LET r == ApplyProvider(providers[i], Append(at, i), med, req)
         IN  IF r.kind = "CannotProvide"
             THEN ConcatLoopErrorsReversed(providers, i + 1, <<r.error>> \o errors,
                                           calls \o r.calls, at, med, req)
             ELSE WithCallsBefore(calls, r)

\* ConcatProvider.apply_provider, the loop from provider i on: the first
\* provider that does not raise CannotProvide ends the loop, every
\* CannotProvide (terminal or not) is appended to errors
ConcatLoop(providers, i, errors, calls, at, med, req) ==
    IF i > Len(providers)
    THEN Raised(CannotProvide("", errors, FALSE, FALSE), calls)
    ELSE LET r == ApplyProvider(providers[i], Append(at, i), med, req)
         IN  IF r.kind = "CannotProvide"
             THEN ConcatLoop(providers, i + 1, Append(errors, r.error),
                             calls \o r.calls, at, med, req)
             ELSE WithCallsBefore(calls, r)

\* faulty variant: provide_from_next is asked before the wrapped provider
ChainingApplyNextFirst(p, at, med, req) ==
    LET asked == <<Call("provide_from_next", at)>>
    IN  IF med.next.kind # "return"
        THEN Raised(med.next.error, asked)
        ELSE LET cur == WithCallsBefore(asked, ApplyProvider(p.provider, Append(at, 1), med, req))
             IN  IF cur.kind # "return" THEN cur
                 ELSE IF p.chain = "FIRST"
                      THEN Returned(MakeChain(cur.value, med.next.value), cur.calls)
                      ELSE IF p.chain = "LAST"
                           THEN Returned(MakeChain(med.next.value, cur.value), cur.calls)
                           ELSE RaisedValueError(cur.calls)

\* ChainingProvider.apply_provider
ChainingApply(p, at, med, req) ==
    LET cur == ApplyProvider(p.provider, Append(at, 1), med, req)
    IN  IF cur.kind # "return"
        THEN cur
        ELSE LET calls == Append(cur.calls, Call("provide_from_next", at))
             IN  IF med.next.kind # "return"
                 THEN Raised(med.next.error, calls)
                 ELSE IF p.chain = "FIRST"
                      THEN Returned(MakeChain(cur.value, med.next.value), calls)
                      ELSE IF p.chain = "LAST"
                           THEN Returned(MakeChain(med.next.value, cur.value), calls)
                           ELSE RaisedValueError(calls)

\* Provider.apply_provider, dispatched on the provider's class; the call
\* itself is logged before the calls it makes
ApplyProvider(p, at, med, req) ==
    WithCallsBefore(<<Call("apply_provider", at)>>,
        CASE p.kind = "Value" -> ValueProviderApply(p, req)
          [] p.kind = "Declining" -> Raised(p.error, <<>>)
          [] p.kind = "Concat" -> ConcatLoop(p.providers, 1, <<>>, <<>>, at, med, req)
          [] p.kind = "Chaining" -> ChainingApply(p, at, med, req))

----------------------------------------------------------------------------
\* Request checkers

AnyRequestChecker == [kind |-> "Any"]

ExactFieldNameRC(field_name) == [kind |-> "ExactFieldName", field_name |-> field_name]

OrRequestChecker(request_checkers) == [kind |-> "Or", request_checkers |-> request_checkers]

AndRequestChecker(request_checkers) == [kind |-> "And", request_checkers |-> request_checkers]

NegRequestChecker(rc) == [kind |-> "Neg", rc |-> rc]

XorRequestChecker(left, right) == [kind |-> "Xor", left |-> left, right |-> right]

StackEndRC(request_checkers) == [kind |-> "StackEnd", request_checkers |-> request_checkers]

\* check_request returns None
Passed(calls) == Returned("None", calls)

\* ExactFieldNameRC._check_location
ExactFieldNameCheckLocation(c, loc) ==
    IF c.field_name = loc.name
    THEN Passed(<<>>)
    ELSE Raised(CannotProvide("field_name must be a " \o c.field_name, <<>>, FALSE, FALSE), <<>>)

\* LocatedRequestChecker.check_request with LOCATION = FieldLocation
ExactFieldNameCheck(c, req) ==
    IF ~req.located
    THEN Raised(CannotProvide("Request must be instance of LocatedRequest", <<>>, FALSE, FALSE), <<>>)
    ELSE IF req.loc.kind # "FieldLocation"
         THEN Raised(CannotProvide("Request location must be instance of FieldLocation",
                                   <<>>, FALSE, FALSE), <<>>)
         ELSE ExactFieldNameCheckLocation(c, req.loc)

RECURSIVE CheckRequest(_, _, _, _)
RECURSIVE OrLoop(_, _, _, _, _, _, _)
RECURSIVE OrLoopFailFast(_, _, _, _, _, _, _)
RECURSIVE AndLoop(_, _, _, _, _, _)
RECURSIVE AndLoopEvaluatesAll(_, _, _, _, _, _)
RECURSIVE StackEndLoop(_, _, _, _, _, _)

\* faulty variant: the first failing checker fails the Or
OrLoopFailFast(cs, i, sub_errors, calls, at, med, req) ==
    IF i > Len(cs)
    THEN IF cs = <<>>
         THEN Raised(CannotProvide("", sub_errors, FALSE, FALSE), calls)
         ELSE Passed(calls)
    ELSE LET r == CheckRequest(cs[i], Append(at, i), med, req)
         IN  IF r.kind = "CannotProvide"
             THEN Raised(CannotProvide("", <<r.error>>, FALSE, FALSE), calls \o r.calls)
             ELSE OrLoopFailFast(cs, i + 1, sub_errors, calls \o r.calls, at, med, req)

\* OrRequestChecker.check_request, the loop from checker i on
OrLoop(cs, i, sub_errors, calls, at, med, req) ==
    IF i > Len(cs)
    THEN Raised(CannotProvide("", sub_errors, FALSE, FALSE), calls)
    ELSE LET r == CheckRequest(cs[i], Append(at, i), med, req)
         IN  IF r.kind = "CannotProvide"
             THEN OrLoop(cs, i + 1, Append(sub_errors, r.error), calls \o r.calls, at, med, req)
             ELSE WithCallsBefore(calls, r)

\* faulty variant: every checker is evaluated before the first failure is raised
AndLoopEvaluatesAll(cs, i, calls, at, med, req) ==
    IF i > Len(cs)
    THEN Passed(calls)
    ELSE LET r == CheckRequest(cs[i], Append(at, i), med, req)
             rest == AndLoopEvaluatesAll(cs, i + 1, calls \o r.calls, at, med, req)
         IN  IF r.kind = "return"
             THEN rest
             ELSE [r EXCEPT !.calls = rest.calls]

\* AndRequestChecker.check_request, the loop from checker i on: the first
\* exception leaves the loop
AndLoop(cs, i, calls, at, med, req) ==
    IF i > Len(cs)
    THEN Passed(calls)
    ELSE LET r == CheckRequest(cs[i], Append(at, i), med, req)
         IN  IF r.kind = "return"
             THEN AndLoop(cs, i + 1, calls \o r.calls, at, med, req)
             ELSE WithCallsBefore(calls, r)

\* faulty variant: the wrapped checker's verdict is passed through
NegCheckPassThrough(c, at, med, req) ==
    CheckRequest(c.rc, Append(at, 1), med, req)

\* NegRequestChecker.check_request
NegCheck(c, at, med, req) ==
    LET r == CheckRequest(c.rc, Append(at, 1), med, req)
    IN  IF r.kind = "CannotProvide"
        THEN Passed(r.calls)
        ELSE IF r.kind = "return"
             THEN Raised(EmptyCannotProvide, r.calls)
             ELSE r

\* faulty variant: the right side is evaluated only when the left side succeeds
XorCheckLazy(c, at, med, req) ==
    LET l == CheckRequest(c.left, Append(at, 1), med, req)
        r == CheckRequest(c.right, Append(at, 2), med, req)
    IN  IF l.kind = "CannotProvide"
        THEN IF r.kind = "CannotProvide"
             THEN Raised(CannotProvide("", <<l.error, r.error>>, FALSE, FALSE), l.calls)
             ELSE Passed(l.calls)
        ELSE IF r.kind = "CannotProvide"
             THEN Passed(l.calls \o r.calls)
             ELSE Raised(EmptyCannotProvide, l.calls \o r.calls)

\* XorRequestChecker.check_request
XorCheck(c, at, med, req) ==
    LET l == CheckRequest(c.left, Append(at, 1), med, req)
    IN  IF l.kind \notin {"return", "CannotProvide"}
        THEN l
        ELSE LET r == WithCallsBefore(l.calls, CheckRequest(c.right, Append(at, 2), med, req))
                 exceptions ==
                     (IF l.kind = "CannotProvide" THEN <<l.error>> ELSE <<>>)
                     \o (IF r.kind = "CannotProvide" THEN <<r.error>> ELSE <<>>)
             IN  IF r.kind \notin {"return", "CannotProvide"}
                 THEN r
                 ELSE IF Len(exceptions) = 0
                      THEN Raised(EmptyCannotProvide, r.calls)
                      ELSE IF Len(exceptions) = 2
                           THEN Raised(CannotProvide("", exceptions, FALSE, FALSE), r.calls)
                           ELSE Passed(r.calls)

\* faulty variant: the checkers are aligned to the head of the stack
StackEndCheckFromHead(c, at, med, req) ==
    LET stack == med.request_stack
        offset == Len(stack) - Len(c.request_checkers)
    IN  IF offset < 0
        THEN Raised(CannotProvide("Request stack is too small", <<>>, FALSE, FALSE), <<>>)
        ELSE StackEndLoop(c.request_checkers, stack, 1, <<>>, at, med)

\* StackEndRC.check_request, the loop over zip(request_checkers, stack[offset:])
\* from pair i on
StackEndLoop(cs, tail, i, calls, at, med) ==
    IF i > Len(cs) \/ i > Len(tail)
    THEN Passed(calls)
    ELSE LET r == CheckRequest(cs[i], Append(at, i), med, tail[i])
         IN  IF r.kind = "return"
             THEN StackEndLoop(cs, tail, i + 1, calls \o r.calls, at, med)
             ELSE WithCallsBefore(calls, r)

\* StackEndRC.check_request
StackEndCheck(c, at, med, req) ==
    LET stack == med.request_stack
        offset == Len(stack) - Len(c.request_checkers)
    IN  IF offset < 0
        THEN Raised(CannotProvide("Request stack is too small", <<>>, FALSE, FALSE), <<>>)
        ELSE StackEndLoop(c.request_checkers, SubSeq(stack, offset + 1, Len(stack)),
                          1, <<>>, at, med)

\* RequestChecker.check_request, dispatched on the checker's class; the call
\* itself is logged before the calls it makes
CheckRequest(c, at, med, req) ==
    WithCallsBefore(<<Call("check_request", at)>>,
        CASE c.kind = "Any" -> Passed(<<>>)
          [] c.kind = "ExactFieldName" -> ExactFieldNameCheck(c, req)
          [] c.kind = "Or" -> OrLoop(c.request_checkers, 1, <<>>, <<>>, at, med, req)
          [] c.kind = "And" -> AndLoop(c.request_checkers, 1, <<>>, at, med, req)
          [] c.kind = "Neg" -> NegCheck(c, at, med, req)
          [] c.kind = "Xor" -> XorCheck(c, at, med, req)
          [] c.kind = "StackEnd" -> StackEndCheck(c, at, med, req))

----------------------------------------------------------------------------
\* Resolution through a ConcatProvider

\* class Chain(Enum)
Chains == {"FIRST", "LAST"}

ProviderClasses == RequestClasses \cup {"Request"}

\* the errors leaf providers decline with; the last one is terminal and
\* demonstrative, as the errors of the name layout are
DecliningErrors ==
    {CannotProvide("e1", <<>>, FALSE, FALSE),
     CannotProvide("e2", <<>>, FALSE, FALSE),
     CannotProvide("t1", <<>>, TRUE, TRUE)}

DecliningProviders == {DecliningProvider(e) : e \in DecliningErrors}

ConcatValues == {"X", "Y"}

ConcatLeaves ==
    {ValueProvider(c, v) : c \in ProviderClasses, v \in ConcatValues}
    \cup DecliningProviders

ConcatConfigs == {ConcatProvider(ps) : ps \in SeqsUpTo(ConcatLeaves, MaxProviders)}

\* a recipe without a provider after the current one
NothingNext == Raised(EmptyCannotProvide, <<>>)

InitConcat ==
    /\ OthersIdle
    /\ provider \in ConcatConfigs
    /\ checker = NoChecker
    /\ pred = NoPred
    /\ layout = NoLayout
    /\ request = NoRequest
    /\ mediator = NoMediator
    /\ outcome = NotCalled

\* the resolution of one request: provider.apply_provider(mediator, request)
ConcatApply ==
    \E req \in PlainRequests :
        LET med == Mediator(<<req>>, NothingNext)
        IN  /\ outcome = NotCalled
            /\ request' = req
            /\ mediator' = med
            /\ outcome' = ApplyProvider(provider, <<>>, med, req)
            /\ UNCHANGED <<provider, checker, pred, layout, others>>

NextConcat == ConcatApply

SpecConcat == InitConcat /\ [][NextConcat]_vars

Called == outcome.kind # "none"

\* what sub-provider i of the configured Concat does on the current request
SubResult(i) == ApplyProvider(provider.providers[i], <<i>>, mediator, request)

Succeeding == {i \in 1..Len(provider.providers) : SubResult(i).kind = "return"}

Lowest(S) == CHOOSE i \in S : \A j \in S : i <= j

\* the sub-providers of the root that the last call invoked
InvokedSubs == {outcome.calls[j].at[1] : j \in {k \in DOMAIN outcome.calls : outcome.calls[k].at # <<>>}}

\* C1: when at least one of P1..Pn succeeds, Concat returns the value of the
\* lowest-index succeeding provider and invokes no provider after it.
C1_FirstSuccessWins ==
    (Called /\ Succeeding # {}) =>
        LET k == Lowest(Succeeding)
        IN  /\ outcome.kind = "return"
            /\ outcome.value = SubResult(k).value
            /\ \A i \in InvokedSubs : i <= k

\* P1 declines, P2 gives X, P3 gives Y, and the call returned X
C1_Witness ==
    /\ Called
    /\ Len(provider.providers) = 3
    /\ Succeeding = {2, 3}
    /\ SubResult(2).value = "X"
    /\ SubResult(3).value = "Y"
    /\ outcome.kind = "return"
    /\ outcome.value = "X"
    /\ InvokedSubs = {1, 2}

\* the sub-providers that are reached and fail with a terminal CannotProvide
TerminalAt ==
    {i \in 1..Len(provider.providers) :
        /\ \A j \in 1..i : SubResult(j).kind = "CannotProvide"
        /\ SubResult(i).error.is_terminal}

\* C2: a terminal CannotProvide of a sub-provider stops the search: the call
\* fails with the terminal error and no later provider of the Concat is tried.
C2_TerminalStopsSearch ==
    (Called /\ TerminalAt # {}) =>
        LET k == Lowest(TerminalAt)
        IN  /\ outcome.kind = "CannotProvide"
            /\ \/ outcome.error = SubResult(k).error
               \/ outcome.error.is_terminal
               \/ \E j \in DOMAIN outcome.error.sub_errors :
                      outcome.error.sub_errors[j] = SubResult(k).error
            /\ \A i \in InvokedSubs : i <= k

\* C3: when every Pi declines, Concat fails with a CannotProvide whose
\* sub_errors are the n failures of P1..Pn in provider order (none for n = 0).
C3_AllDeclineAggregates ==
    (Called /\ Succeeding = {}) =>
        /\ outcome.kind = "CannotProvide"
        /\ outcome.error.sub_errors =
               [i \in 1..Len(provider.providers) |-> SubResult(i).error]
        /\ InvokedSubs = 1..Len(provider.providers)

\* three providers decline with three different errors
C3_Witness ==
    /\ Called
    /\ Len(provider.providers) = 3
    /\ Succeeding = {}
    /\ Cardinality({SubResult(i).error : i \in 1..3}) = 3
    /\ outcome.kind = "CannotProvide"
    /\ Len(outcome.error.sub_errors) = 3

----------------------------------------------------------------------------
\* Resolution through a ChainingProvider

RoutineLeaves ==
    {ValueProvider(c, f) : c \in ProviderClasses, f \in Routines}
    \cup DecliningProviders

\* the providers a ChainingProvider wraps: a leaf, or a Concat of a
\* declining provider and a leaf
WrappedProviders ==
    RoutineLeaves
    \cup {ConcatProvider(<<d, l>>) : d \in DecliningProviders, l \in RoutineLeaves}

ChainingConfigs == {ChainingProvider(c, p) : c \in Chains, p \in WrappedProviders}

\* what mediator.provide_from_next() can give: the routine of the rest of
\* the recipe, or the CannotProvide of the rest of the recipe
NextOutcomes ==
    {Returned(g, <<>>) : g \in Routines}
    \cup {Raised(e, <<>>) : e \in DecliningErrors \cup {EmptyCannotProvide}}

InitChaining ==
    /\ OthersIdle
    /\ provider \in ChainingConfigs
    /\ checker = NoChecker
    /\ pred = NoPred
    /\ layout = NoLayout
    /\ request = NoRequest
    /\ mediator = NoMediator
    /\ outcome = NotCalled

\* one resolution that reaches the ChainingProvider
ChainingApplyProvider ==
    \E req \in PlainRequests, next \in NextOutcomes :
        LET med == Mediator(<<req>>, next)
        IN  /\ outcome = NotCalled
            /\ request' = req
            /\ mediator' = med
            /\ outcome' = ApplyProvider(provider, <<>>, med, req)
            /\ UNCHANGED <<provider, checker, pred, layout, others>>

NextChaining == ChainingApplyProvider

SpecChaining == InitChaining /\ [][NextChaining]_vars

\* what the wrapped provider does on the current request
OwnResult == ApplyProvider(provider.provider, <<1>>, mediator, request)

\* the positions of the call log at which provide_from_next was asked
NextAsked == {j \in DOMAIN outcome.calls : outcome.calls[j].op = "provide_from_next"}

\* the positions of the call log that belong to the wrapped provider
OwnCalls == {j \in DOMAIN outcome.calls : IsPrefix(<<1>>, outcome.calls[j].at)}

\* C4: with the wrapped provider yielding f and the continuation yielding g,
\* Chaining(FIRST) returns x |-> g(f(x)) and Chaining(LAST) returns x |-> f(g(x)).
C4_ChainingComposition ==
    (Called /\ OwnResult.kind = "return" /\ mediator.next.kind = "return") =>
        LET f == OwnResult.value
            g == mediator.next.value
        IN  /\ outcome.kind = "return"
            /\ provider.chain = "FIRST" => \A x \in Data : outcome.value[x] = g[f[x]]
            /\ provider.chain = "LAST" => \A x \in Data : outcome.value[x] = f[g[x]]

\* a LAST chain of two routines that do not commute
C4_Witness ==
    /\ Called
    /\ provider.chain = "LAST"
    /\ OwnResult.kind = "return"
    /\ mediator.next.kind = "return"
    /\ outcome.kind = "return"
    /\ \E x \in Data :
           /\ OwnResult.value[mediator.next.value[x]] # mediator.next.value[OwnResult.value[x]]
           /\ outcome.value[x] = OwnResult.value[mediator.next.value[x]]

\* C5: the wrapped provider is resolved first; provide_from_next is asked once,
\* after it returned, and never when it declines (the decline propagates
\* unchanged); a failing continuation fails the whole application.
C5_OwnThenNext ==
    Called =>
        /\ OwnResult.kind # "return" =>
               /\ NextAsked = {}
               /\ outcome.kind = OwnResult.kind
               /\ outcome.error = OwnResult.error
        /\ OwnResult.kind = "return" =>
               /\ Cardinality(NextAsked) = 1
               /\ OwnCalls # {}
               /\ \A j \in NextAsked : \A k \in OwnCalls : k < j
               /\ mediator.next.kind # "return" =>
                      /\ outcome.kind = "CannotProvide"
                      /\ outcome.error = mediator.next.error
        /\ outcome.kind = "return" => Cardinality(NextAsked) = 1

\* the wrapped provider returned and the continuation failed
C5_Witness ==
    /\ Called
    /\ OwnResult.kind = "return"
    /\ mediator.next.kind = "CannotProvide"
    /\ outcome.kind = "CannotProvide"
    /\ Cardinality(NextAsked) = 1

----------------------------------------------------------------------------
\* Checking requests against Or / And / Neg / Xor checkers

LeafCheckers == {AnyRequestChecker} \cup {ExactFieldNameRC(n) : n \in CheckerFieldNames}

\* the operands of the combinators: a leaf checker or a negated one
OperandCheckers == LeafCheckers \cup {NegRequestChecker(c) : c \in LeafCheckers}

CheckerConfigs ==
    {OrRequestChecker(cs) : cs \in SeqsUpTo(OperandCheckers, MaxCheckers)}
    \cup {AndRequestChecker(cs) : cs \in SeqsUpTo(OperandCheckers, MaxCheckers)}
    \cup {NegRequestChecker(c) : c \in OperandCheckers}
    \cup {XorRequestChecker(l, r) : l \in OperandCheckers, r \in OperandCheckers}

\* the requests checkers are asked about
CheckerRequests == {r \in Requests : r.cls = "LoaderRequest"}

InitCheckers ==
    /\ OthersIdle
    /\ provider = NoProvider
    /\ checker \in CheckerConfigs
    /\ pred = NoPred
    /\ layout = NoLayout
    /\ request = NoRequest
    /\ mediator = NoMediator
    /\ outcome = NotCalled

\* checker.check_request(mediator, request)
CheckRequestCall ==
    \E req \in CheckerRequests :
        LET med == Mediator(<<req>>, NothingNext)
        IN  /\ outcome = NotCalled
            /\ request' = req
            /\ mediator' = med
            /\ outcome' = CheckRequest(checker, <<>>, med, req)
            /\ UNCHANGED <<provider, checker, pred, layout, others>>

NextCheckers == CheckRequestCall

SpecCheckers == InitCheckers /\ [][NextCheckers]_vars

\* what operand i of the configured Or / And does on the current request
SubCheck(i) == CheckRequest(checker.request_checkers[i], <<i>>, mediator, request)

Operands == 1..Len(checker.request_checkers)

PassingOperands == {i \in Operands : SubCheck(i).kind = "return"}

FailingOperands == {i \in Operands : SubCheck(i).kind = "CannotProvide"}

\* C6: Or succeeds iff at least one checker succeeds; when all fail, its
\* CannotProvide carries the n sub-failures in checker order.
C6_OrAnyAndAggregate ==
    (Called /\ checker.kind = "Or") =>
        /\ outcome.kind = "return" <=> PassingOperands # {}
        /\ PassingOperands = {} =>
               /\ outcome.kind = "CannotProvide"
               /\ outcome.error.sub_errors = [i \in Operands |-> SubCheck(i).error]

\* three checkers fail, not all with the same error, and Or failed
C6_Witness ==
    /\ Called
    /\ checker.kind = "Or"
    /\ Len(checker.request_checkers) = 3
    /\ PassingOperands = {}
    /\ SubCheck(1).error # SubCheck(2).error
    /\ outcome.kind = "CannotProvide"
    /\ Len(outcome.error.sub_errors) = 3

\* C7: And succeeds iff every checker succeeds; the first failing checker's own
\* CannotProvide is raised and no checker after it is evaluated.
C7_AndShortCircuits ==
    (Called /\ checker.kind = "And") =>
        /\ outcome.kind = "return" <=> FailingOperands = {}
        /\ FailingOperands # {} =>
               LET k == Lowest(FailingOperands)
               IN  /\ outcome.kind = "CannotProvide"
                   /\ outcome.error = SubCheck(k).error
                   /\ \A i \in InvokedSubs : i <= k

\* the second of three checkers fails and the third is not evaluated
C7_Witness ==
    /\ Called
    /\ checker.kind = "And"
    /\ Len(checker.request_checkers) = 3
    /\ FailingOperands = {2, 3}
    /\ outcome.kind = "CannotProvide"
    /\ InvokedSubs = {1, 2}

LeftCheck == CheckRequest(checker.left, <<1>>, mediator, request)

RightCheck == CheckRequest(checker.right, <<2>>, mediator, request)

\* C8: Xor succeeds iff exactly one side succeeds; both sides are evaluated;
\* both failing gives both sub-errors, left first; both succeeding gives none.
C8_XorExactlyOne ==
    (Called /\ checker.kind = "Xor") =>
        /\ outcome.kind = "return" <=> (LeftCheck.kind = "return") # (RightCheck.kind = "return")
        /\ InvokedSubs = {1, 2}
        /\ (LeftCheck.kind = "CannotProvide" /\ RightCheck.kind = "CannotProvide") =>
               /\ outcome.kind = "CannotProvide"
               /\ outcome.error.sub_errors = <<LeftCheck.error, RightCheck.error>>
        /\ (LeftCheck.kind = "return" /\ RightCheck.kind = "return") =>
               /\ outcome.kind = "CannotProvide"
               /\ outcome.error.sub_errors = <<>>

\* both sides fail with different errors
C8_Witness ==
    /\ Called
    /\ checker.kind = "Xor"
    /\ LeftCheck.kind = "CannotProvide"
    /\ RightCheck.kind = "CannotProvide"
    /\ LeftCheck.error # RightCheck.error
    /\ outcome.kind = "CannotProvide"
    /\ Len(outcome.error.sub_errors) = 2

InnerCheck == CheckRequest(checker.rc, <<1>>, mediator, request)

\* C9: Neg succeeds iff the wrapped checker fails, and fails with an empty
\* CannotProvide iff it succeeds; so -(-c) succeeds exactly when c succeeds.
C9_NegInverts ==
    (Called /\ checker.kind = "Neg") =>
        /\ outcome.kind = "return" <=> InnerCheck.kind = "CannotProvide"
        /\ outcome.kind = "CannotProvide" <=> InnerCheck.kind = "return"
        /\ outcome.kind = "CannotProvide" =>
               /\ outcome.error.message = ""
               /\ outcome.error.sub_errors = <<>>
        /\ checker.rc.kind = "Neg" =>
               (outcome.kind = "return"
                   <=> CheckRequest(checker.rc.rc, <<1, 1>>, mediator, request).kind = "return")

\* a double negation of a checker that fails with a message has failed
C9_Witness ==
    /\ Called
    /\ checker.kind = "Neg"
    /\ checker.rc.kind = "Neg"
    /\ CheckRequest(checker.rc.rc, <<1, 1>>, mediator, request).kind = "CannotProvide"
    /\ CheckRequest(checker.rc.rc, <<1, 1>>, mediator, request).error.message # ""
    /\ outcome.kind = "CannotProvide"
    /\ outcome.error = EmptyCannotProvide

----------------------------------------------------------------------------
\* Checking the request stack against a StackEndRC

StackOperands == LeafCheckers \cup {NegRequestChecker(ExactFieldNameRC("a"))}

StackEndConfigs == {StackEndRC(cs) : cs \in SeqsUpTo(StackOperands, MaxCheckers)}

InitStackEnd ==
    /\ OthersIdle
    /\ provider = NoProvider
    /\ checker \in StackEndConfigs
    /\ pred = NoPred
    /\ layout = NoLayout
    /\ request = NoRequest
    /\ mediator = NoMediator
    /\ outcome = NotCalled

\* checker.check_request(mediator, request) inside a resolution whose stack
\* of requests in flight is request_stack: the request being resolved is the
\* newest entry of a non-empty stack
StackEndCheckRequestCall ==
    \E stack \in SeqsUpTo(CheckerRequests, MaxStack) :
        \E req \in (IF stack = <<>> THEN CheckerRequests ELSE {stack[Len(stack)]}) :
            LET med == Mediator(stack, NothingNext)
            IN  /\ outcome = NotCalled
                /\ request' = req
                /\ mediator' = med
                /\ outcome' = CheckRequest(checker, <<>>, med, req)
                /\ UNCHANGED <<provider, checker, pred, layout, others>>

NextStackEnd == StackEndCheckRequestCall

SpecStackEnd == InitStackEnd /\ [][NextStackEnd]_vars

\* checker ki accepts stack entry j
Accepts(i, j) ==
    CheckRequest(checker.request_checkers[i], <<i>>, mediator, mediator.request_stack[j]).kind = "return"

\* C10: StackEndRC with m checkers fails on a stack of n < m requests; otherwise
\* it succeeds iff ki accepts s(n-m+i) for every i; with m = 0 it always succeeds.
C10_StackEndAlignsToTail ==
    Called =>
        LET m == Len(checker.request_checkers)
            n == Len(mediator.request_stack)
        IN  /\ n < m => outcome.kind = "CannotProvide"
            /\ n >= m => (outcome.kind = "return" <=> \A i \in 1..m : Accepts(i, n - m + i))
            /\ m = 0 => outcome.kind = "return"

\* two checkers accept the two newest of three requests and not the two oldest
C10_Witness ==
    /\ Called
    /\ Len(checker.request_checkers) = 2
    /\ Len(mediator.request_stack) = 3
    /\ Accepts(1, 2)
    /\ Accepts(2, 3)
    /\ ~Accepts(1, 1)
    /\ outcome.kind = "return"

----------------------------------------------------------------------------
\* Creating request checkers from a specification

ReFieldNameRC(pattern) == [kind |-> "ReFieldName", pattern |-> pattern]

ExactTypeRC(norm) == [kind |-> "ExactType", norm |-> norm]

SubclassRC(type_) == [kind |-> "Subclass", type_ |-> type_]

ExactOriginRC(origin) == [kind |-> "ExactOrigin", origin |-> origin]

CheckerKinds ==
    {"Any", "ExactFieldName", "ReFieldName", "ExactType", "Subclass", "ExactOrigin",
     "Or", "And", "Neg", "Xor", "StackEnd"}

\* what normalize_type does with a type hint
NormalizeOutcomes == {"BaseNormType", "NormTV", "NotSubscribedError", "ValueError"}

\* a type hint, with what the type tools say about it: the outcome of
\* normalize_type, is_parametrized, and is_protocol / isabstract of its origin
TypeHints ==
    [kind : {"TypeHint"}, origin : {"Iterable", "int"}, normalize : NormalizeOutcomes,
     is_parametrized : BOOLEAN, is_protocol : BOOLEAN, is_abstract : BOOLEAN]

\* a string with what str.isidentifier gives for it
StringPreds ==
    {[kind |-> "str", text |-> "a", isidentifier |-> TRUE],
     [kind |-> "str", text |-> "b", isidentifier |-> TRUE],
     [kind |-> "str", text |-> "a.*", isidentifier |-> FALSE],
     [kind |-> "str", text |-> "a|b", isidentifier |-> FALSE]}

\* a compiled re.Pattern
PatternPreds == {[kind |-> "Pattern", pattern |-> t] : t \in {"a.*", "a|b"}}

\* normalize_type(tp) of a type hint it accepts
NormalizeType(tp) == [kind |-> tp.normalize, source |-> tp, origin |-> tp.origin]

\* match_origin
MatchOrigin(tp) ==
    IF tp.is_parametrized \/ tp.normalize = "ValueError"
    THEN RaisedValueError(<<>>)
    ELSE LET origin == IF tp.normalize = "NotSubscribedError" THEN tp
                       ELSE NormalizeType(tp).origin
         IN  IF tp.is_protocol \/ tp.is_abstract
             THEN Returned(SubclassRC(origin), <<>>)
             ELSE Returned(ExactOriginRC(origin), <<>>)

\* faulty variant: abstract and protocol-like origins get a subclass check
CreateTypeHintReqCheckerByOrigin(tp) ==
    IF tp.normalize = "NotSubscribedError"
    THEN Returned(ExactOriginRC(tp), <<>>)
    ELSE IF tp.normalize \in {"ValueError", "NormTV"}
         THEN RaisedValueError(<<>>)
         ELSE IF tp.is_protocol \/ tp.is_abstract
              THEN Returned(SubclassRC(tp.origin), <<>>)
              ELSE Returned(ExactTypeRC(NormalizeType(tp)), <<>>)

\* create_type_hint_req_checker
CreateTypeHintReqChecker(tp) ==
    IF tp.normalize = "NotSubscribedError"
    THEN Returned(ExactOriginRC(tp), <<>>)
    ELSE IF tp.normalize = "ValueError"
         THEN RaisedValueError(<<>>)
         ELSE IF tp.normalize = "NormTV"
              THEN RaisedValueError(<<>>)
              ELSE Returned(ExactTypeRC(NormalizeType(tp)), <<>>)

\* create_req_checker
CreateReqChecker(p) ==
    IF p.kind = "str"
    THEN IF p.isidentifier
         THEN Returned(ExactFieldNameRC(p.text), <<>>)
         ELSE Returned(ReFieldNameRC(p.text), <<>>)
    ELSE IF p.kind = "Pattern"
         THEN Returned(ReFieldNameRC(p.pattern), <<>>)
         ELSE IF p.kind \in CheckerKinds
              THEN Returned(p, <<>>)
              ELSE CreateTypeHintReqChecker(p)

Preds == StringPreds \cup PatternPreds \cup LeafCheckers \cup TypeHints

InitCreate ==
    /\ OthersIdle
    /\ provider = NoProvider
    /\ checker = NoChecker
    /\ pred \in Preds
    /\ layout = NoLayout
    /\ request = NoRequest
    /\ mediator = NoMediator
    /\ outcome = NotCalled

\* create_req_checker(pred)
CreateReqCheckerCall ==
    /\ outcome = NotCalled
    /\ outcome' = WithCallsBefore(<<Call("create_req_checker", <<>>)>>, CreateReqChecker(pred))
    /\ UNCHANGED <<provider, checker, pred, layout, request, mediator, others>>

\* match_origin(pred)
MatchOriginCall ==
    /\ outcome = NotCalled
    /\ pred.kind = "TypeHint"
    /\ outcome' = WithCallsBefore(<<Call("match_origin", <<>>)>>, MatchOrigin(pred))
    /\ UNCHANGED <<provider, checker, pred, layout, request, mediator, others>>

NextCreate == CreateReqCheckerCall \/ MatchOriginCall

SpecCreate == InitCreate /\ [][NextCreate]_vars

\* the last call was a call of the operation op
CalledOp(op) == outcome.kind # "none" /\ outcome.calls[1].op = op

\* the specification is neither a string nor a pre-built checker
OtherPred == pred.kind # "str" /\ pred.kind \notin CheckerKinds

\* C11 as stated: a specification that is neither a string nor a pre-built
\* checker is compiled into an exact-type check, except that an abstract or
\* protocol-like origin gives a subclass check.
C11_SubclassForAbstractOrigin ==
    (CalledOp("create_req_checker") /\ pred.kind = "TypeHint" /\ outcome.kind = "return") =>
        IF pred.is_protocol \/ pred.is_abstract
        THEN outcome.value.kind = "Subclass"
        ELSE outcome.value.kind = "ExactType"

\* C11 as amended: create_req_checker never gives a subclass check; a compiled
\* pattern gives a regex field-name check, and a type hint gives an exact-type
\* check on its normalized form, an exact-origin check when normalize_type
\* raises NotSubscribedError, and ValueError when normalization fails or
\* yields a type variable, whether or not the origin is abstract or protocol-like.
C11_ExactTypeForTypeHints ==
    (CalledOp("create_req_checker") /\ OtherPred) =>
        /\ outcome.kind = "return" => outcome.value.kind # "Subclass"
        /\ pred.kind = "Pattern" =>
               outcome.kind = "return" /\ outcome.value = ReFieldNameRC(pred.pattern)
        /\ pred.kind = "TypeHint" =>
               /\ pred.normalize = "BaseNormType" =>
                      /\ outcome.kind = "return"
                      /\ outcome.value.kind = "ExactType"
                      /\ outcome.value.norm.source = pred
               /\ pred.normalize = "NotSubscribedError" =>
                      outcome.kind = "return" /\ outcome.value = ExactOriginRC(pred)
               /\ pred.normalize \in {"NormTV", "ValueError"} => outcome.kind = "ValueError"

\* a protocol-like type hint was compiled into an exact-type check
C11_Witness ==
    /\ CalledOp("create_req_checker")
    /\ pred.kind = "TypeHint"
    /\ pred.is_protocol
    /\ pred.normalize = "BaseNormType"
    /\ outcome.kind = "return"
    /\ outcome.value.kind = "ExactType"

----------------------------------------------------------------------------
\* The structural name layout (BuiltinStructureMaker)

\* most fields of a shape
MaxFields == 3
\* largest list index of a key path
MaxIndex == 2

\* a key of a KeyPath is a string or an int
StrKey(s) == [kind |-> "str", str |-> s, int |-> 0]

IntKey(i) == [kind |-> "int", str |-> "", int |-> i]

IsInt(key) == key.kind = "int"

\* the path a field is mapped to: None or a KeyPath
NonePath == [kind |-> "None", path |-> <<>>]

SomePath(p) == [kind |-> "path", path |-> p]

\* what the provider made from schema.map does with a NameMappingRequest:
\* it raises CannotProvide, returns None, or returns a KeyPath
MapDeclines == [kind |-> "CannotProvide", path |-> <<>>]

\* the ids of the fields of a shape, by position
FieldIdStems == <<"a", "b_", "c__">>

RECURSIVE FieldId(_)
FieldId(i) ==
    IF i <= Len(FieldIdStems) THEN FieldIdStems[i] ELSE "x" \o FieldId(i - Len(FieldIdStems))

\* InputField / OutputField: is_optional is `not is_required`
Field(i, is_required) ==
    [id |-> FieldId(i), is_required |-> is_required, is_optional |-> ~is_required]

\* extra moves: ExtraTargets(fields) is the only one _map_fields looks at
NoExtraMove == [kind |-> "None", fields |-> <<>>]

ExtraTargets(fields) == [kind |-> "ExtraTargets", fields |-> fields]

\* StructureSchema
StructureSchema(skip, only, trim_trailing_underscore, name_style, as_list) ==
    [skip |-> skip, only |-> only, trim_trailing_underscore |-> trim_trailing_underscore,
     name_style |-> name_style, as_list |-> as_list]

\* the request with its shape, the schema provide_schema gives for it, what
\* the map provider answers for each field of the shape, and the extra move
Layout(fields, map, schema, extra_move) ==
    [kind |-> "layout", fields |-> fields, map |-> map, schema |-> schema,
     extra_move |-> extra_move]

\* str.endswith
EndsWith(name, suffix) ==
    /\ Len(name) >= Len(suffix)
    /\ SubSeq(name, Len(name) - Len(suffix) + 1, Len(name)) = suffix

\* str.rstrip('_')
RECURSIVE RStrip(_)
RStrip(name) ==
    IF EndsWith(name, "_") THEN RStrip(SubSeq(name, 1, Len(name) - 1)) ELSE name

\* str.lower on the letters of the model
LowerChar(ch) ==
    CASE ch = "A" -> "a"
      [] ch = "B" -> "b"
      [] ch = "C" -> "c"
      [] OTHER -> ch

\* the leading underscores of a name
RECURSIVE LeadingUnderscores(_)
LeadingUnderscores(name) ==
    IF Len(name) > 0 /\ SubSeq(name, 1, 1) = "_"
    THEN "_" \o LeadingUnderscores(SubSeq(name, 2, Len(name)))
    ELSE ""

\* the letters of a name, lower-cased, without its underscores
RECURSIVE LowerWords(_)
LowerWords(name) ==
    IF Len(name) = 0
    THEN ""
    ELSE LET ch == SubSeq(name, 1, 1)
         IN  (IF ch = "_" THEN "" ELSE LowerChar(ch)) \o LowerWords(SubSeq(name, 2, Len(name)))

\* convert_snake_style(name, NameStyle.LOWER): leading and trailing
\* underscores stay, the words between them are lower-cased and joined
ConvertSnakeStyle(name, style) ==
    LET stripped == RStrip(name)
        trailing == SubSeq(name, Len(stripped) + 1, Len(name))
    IN  IF stripped = ""
        THEN name
        ELSE LeadingUnderscores(name) \o LowerWords(name) \o trailing

\* faulty variant: every name that ends in an underscore is stripped
GenerateKeyStripsAll(schema, fields, i) ==
    IF schema.as_list
    THEN IntKey(i - 1)
    ELSE LET name == fields[i].id
             trimmed == IF schema.trim_trailing_underscore /\ EndsWith(name, "_")
                        THEN RStrip(name) ELSE name
         IN  IF schema.name_style # "None"
             THEN StrKey(ConvertSnakeStyle(trimmed, schema.name_style))
             ELSE StrKey(trimmed)

\* BuiltinStructureMaker._generate_key for the i-th field of the shape
GenerateKey(schema, fields, i) ==
    IF schema.as_list
    THEN IntKey(i - 1)
    ELSE LET name == fields[i].id
             trimmed == IF schema.trim_trailing_underscore /\ EndsWith(name, "_")
                           /\ ~EndsWith(name, "__")
                        THEN RStrip(name) ELSE name
         IN  IF schema.name_style # "None"
             THEN StrKey(ConvertSnakeStyle(trimmed, schema.name_style))
             ELSE StrKey(trimmed)

\* NameMappingFilterRequest(loc_map=field_to_loc_map(owner_type, field))
NameMappingFilterRequest(field) ==
    [cls |-> "NameMappingFilterRequest", located |-> TRUE,
     loc |-> [kind |-> "FieldLocation", name |-> field.id]]

\* apply_rc
ApplyRc(request_checker, field) ==
    LET filter_request == NameMappingFilterRequest(field)
        r == CheckRequest(request_checker, <<>>, Mediator(<<filter_request>>, NotCalled),
                          filter_request)
    IN  r.kind # "CannotProvide"

\* a field with the path it is mapped to
FieldAndPath(field, path) == [field |-> field, path |-> path]

\* the members of a sequence
Range(s) == {s[i] : i \in DOMAIN s}

\* faulty variant: skip and only are applied to generated keys alone, a path
\* the map provider returns is kept as it is
RECURSIVE MapFieldsRemappedUnfiltered(_, _)
MapFieldsRemappedUnfiltered(l, i) ==
    IF i > Len(l.fields)
    THEN <<>>
    ELSE LET field == l.fields[i]
             rest == MapFieldsRemappedUnfiltered(l, i + 1)
             generated_key == GenerateKey(l.schema, l.fields, i)
         IN  IF l.extra_move.kind = "ExtraTargets" /\ field.id \in Range(l.extra_move.fields)
             THEN rest
             ELSE IF l.map[i].kind = "None"
                  THEN <<FieldAndPath(field, NonePath)>> \o rest
                  ELSE IF l.map[i].kind = "path"
                       THEN <<FieldAndPath(field, l.map[i])>> \o rest
                       ELSE IF ~ApplyRc(l.schema.skip, field) /\ ApplyRc(l.schema.only, field)
                            THEN <<FieldAndPath(field, SomePath(<<generated_key>>))>> \o rest
                            ELSE <<FieldAndPath(field, NonePath)>> \o rest

\* BuiltinStructureMaker._map_fields, from the i-th field of the shape on
RECURSIVE MapFields(_, _)
MapFields(l, i) ==
    IF i > Len(l.fields)
    THEN <<>>
    ELSE LET field == l.fields[i]
             rest == MapFields(l, i + 1)
             generated_key == GenerateKey(l.schema, l.fields, i)
             path == IF l.map[i].kind = "CannotProvide"
                     THEN SomePath(<<generated_key>>)
                     ELSE l.map[i]
         IN  IF l.extra_move.kind = "ExtraTargets" /\ field.id \in Range(l.extra_move.fields)
             THEN rest
             ELSE IF path.kind = "None"
                  THEN <<FieldAndPath(field, NonePath)>> \o rest
                  ELSE IF ~ApplyRc(l.schema.skip, field) /\ ApplyRc(l.schema.only, field)
                       THEN <<FieldAndPath(field, path)>> \o rest
                       ELSE <<FieldAndPath(field, NonePath)>> \o rest

\* the errors of the layout: terminal and demonstrative, the message is kept
\* as its fixed text and the values formatted into it
LayoutError(text, details) ==
    CannotProvide([text |-> text, details |-> details], <<>>, TRUE, TRUE)

\* the entries of fields_to_paths whose path is not None
Mapped(fields_to_paths) == SelectSeq(fields_to_paths, LAMBDA fp : fp.path.kind = "path")

\* paths_to_fields[path], as field ids
FieldIdsAt(fields_to_paths, path) ==
    LET at == SelectSeq(Mapped(fields_to_paths), LAMBDA fp : fp.path.path = path)
    IN  [i \in DOMAIN at |-> at[i].field.id]

\* faulty variant: no path counts as a duplicate
DuplicatesNone(fields_to_paths) == {}

\* the dict `duplicates` of _validate_structure: path -> ids of its fields
Duplicates(fields_to_paths) ==
    LET paths == {fp.path.path : fp \in Range(Mapped(fields_to_paths))}
    IN  {[path |-> p, fields |-> FieldIdsAt(fields_to_paths, p)] :
            p \in {q \in paths : Len(FieldIdsAt(fields_to_paths, q)) > 1}}

\* faulty variant: no path is handed to get_prefix_groups
MappedPathsNone(fields_to_paths) == <<>>

\* [path for field, path in fields_to_paths if path is not None]
MappedPaths(fields_to_paths) ==
    LET at == Mapped(fields_to_paths)
    IN  [i \in DOMAIN at |-> at[i].path.path]

\* get_prefix_groups: every path that is a strict prefix of other paths,
\* with those paths
GetPrefixGroups(paths) ==
    LET longer(p) == {q \in Range(paths) : IsPrefix(p, q) /\ q # p}
    IN  {[prefix |-> p, paths |-> longer(p)] : p \in {q \in Range(paths) : longer(q) # {}}}

\* faulty variant: no field counts as an optional field at a list element
OptionalFieldsAtListNone(fields_to_paths) == <<>>

\* the list `optional_fields_at_list` of _validate_structure
OptionalFieldsAtList(fields_to_paths) ==
    LET at == SelectSeq(Mapped(fields_to_paths),
                        LAMBDA fp : fp.field.is_optional /\ IsInt(fp.path.path[Len(fp.path.path)]))
    IN  [i \in DOMAIN at |-> at[i].field.id]

\* BuiltinStructureMaker._validate_structure
ValidateStructure(fields_to_paths) ==
    IF Duplicates(fields_to_paths) # {}
    THEN Raised(LayoutError("Paths {duplicates} pointed to several fields",
                            Duplicates(fields_to_paths)), <<>>)
    ELSE IF GetPrefixGroups(MappedPaths(fields_to_paths)) # {}
         THEN Raised(LayoutError("Path to the field must not be a prefix of another path. ",
                                 GetPrefixGroups(MappedPaths(fields_to_paths))), <<>>)
         ELSE IF OptionalFieldsAtList(fields_to_paths) # <<>>
              THEN Raised(LayoutError(
                       "Optional fields {optional_fields_at_list} can not be mapped to list elements",
                       OptionalFieldsAtList(fields_to_paths)), <<>>)
              ELSE Passed(<<>>)

\* leaf crowns
NoPlaceholder == [kind |-> "none", value |-> "none"]

DefaultValue(value) == [kind |-> "DefaultValue", value |-> value]

InpFieldCrown(id) == [kind |-> "InpFieldCrown", id |-> id, placeholder |-> NoPlaceholder]

OutFieldCrown(id) == [kind |-> "OutFieldCrown", id |-> id, placeholder |-> NoPlaceholder]

InpNoneCrown == [kind |-> "InpNoneCrown", id |-> "", placeholder |-> NoPlaceholder]

OutNoneCrown(placeholder) == [kind |-> "OutNoneCrown", id |-> "", placeholder |-> placeholder]

\* a dict is the sequence of its items in insertion order, keys distinct
DictKeys(d) == [i \in DOMAIN d |-> d[i].key]

DictHas(d, key) == \E i \in DOMAIN d : d[i].key = key

DictGet(d, key) == d[CHOOSE i \in DOMAIN d : d[i].key = key].value

\* d[key] = value: a new key goes last, a known key keeps its place
DictSet(d, key, value) ==
    IF DictHas(d, key)
    THEN [i \in DOMAIN d |-> IF d[i].key = key THEN [key |-> key, value |-> value] ELSE d[i]]
    ELSE Append(d, [key |-> key, value |-> value])

\* faulty variant: the walk up a path stops at a parent that was yielded
\* with any key before
RECURSIVE SubPathsOfSeenParent(_, _, _)
SubPathsOfSeenParent(path, i, yielded) ==
    IF i < 1
    THEN <<>>
    ELSE LET result == [sub_path |-> SubSeq(path, 1, i - 1), key |-> path[i]]
         IN  IF \E y \in yielded : y.sub_path = result.sub_path
             THEN <<>>
             ELSE <<result>> \o SubPathsOfSeenParent(path, i - 1, yielded)

\* the inner loop of _iterate_sub_paths: path[:i], path[i] from the last key
\* of the path down, until a pair that was yielded before
RECURSIVE SubPathsOf(_, _, _)
SubPathsOf(path, i, yielded) ==
    IF i < 1
    THEN <<>>
    ELSE LET result == [sub_path |-> SubSeq(path, 1, i - 1), key |-> path[i]]
         IN  IF result \in yielded
             THEN <<>>
             ELSE <<result>> \o SubPathsOf(path, i - 1, yielded)

\* BuiltinStructureMaker._iterate_sub_paths, from the k-th path on
RECURSIVE IterateSubPaths(_, _, _)
IterateSubPaths(paths, k, yielded) ==
    IF k > Len(paths)
    THEN <<>>
    ELSE LET results == SubPathsOf(paths[k], Len(paths[k]), yielded)
         IN  results \o IterateSubPaths(paths, k + 1, yielded \cup Range(results))

\* the loop of _get_paths_to_list over what _iterate_sub_paths yields
RECURSIVE GetPathsToListLoop(_, _, _, _)
GetPathsToListLoop(sub_paths, k, paths_to_lists, paths_to_dicts) ==
    IF k > Len(sub_paths)
    THEN Returned(paths_to_lists, <<>>)
    ELSE LET sub_path == sub_paths[k].sub_path
             key == sub_paths[k].key
         IN  IF IsInt(key)
             THEN IF sub_path \in paths_to_dicts
                  THEN Raised(LayoutError("Inconsistent path elements at {sub_path}", sub_path),
                              <<>>)
                  ELSE GetPathsToListLoop(
                           sub_paths, k + 1,
                           DictSet(paths_to_lists, sub_path,
                                   (IF DictHas(paths_to_lists, sub_path)
                                    THEN DictGet(paths_to_lists, sub_path) ELSE {})
                                   \cup {key.int}),
                           paths_to_dicts)
             ELSE IF DictHas(paths_to_lists, sub_path)
                  THEN Raised(LayoutError("Inconsistent path elements at {sub_path}", sub_path),
                              <<>>)
                  ELSE GetPathsToListLoop(sub_paths, k + 1, paths_to_lists,
                                          paths_to_dicts \cup {sub_path})

\* BuiltinStructureMaker._get_paths_to_list
GetPathsToList(paths) == GetPathsToListLoop(IterateSubPaths(paths, 1, {}), 1, <<>>, {})

\* max() of a non-empty set of ints
Max(S) == CHOOSE i \in S : \A j \in S : j <= i

\* BuiltinStructureMaker._fill_input_gap
FillInputGap(path) == InpNoneCrown

\* BuiltinStructureMaker._fill_output_gap
FillOutputGap(path) == OutNoneCrown(DefaultValue("None"))

\* field_crown and gaps_filler as make_inp_structure / make_out_structure
\* pass them
FieldCrown(direction, id) == IF direction = "inp" THEN InpFieldCrown(id) ELSE OutFieldCrown(id)

GapsFiller(direction, path) ==
    IF direction = "inp" THEN FillInputGap(path) ELSE FillOutputGap(path)

\* faulty variant: the gap below the largest index is left open
RECURSIVE FillListGapsSkipLast(_, _, _, _, _)
FillListGapsSkipLast(paths_to_leaves, path, indexes, i, direction) ==
    IF i >= Max(indexes) - 1
    THEN paths_to_leaves
    ELSE LET complete_path == Append(path, IntKey(i))
         IN  FillListGapsSkipLast(
                 IF i \notin indexes
                 THEN DictSet(paths_to_leaves, complete_path, GapsFiller(direction, complete_path))
                 ELSE paths_to_leaves,
                 path, indexes, i + 1, direction)

\* `for i in range(max(indexes))` of _make_paths_to_leaves, from i on
RECURSIVE FillListGaps(_, _, _, _, _)
FillListGaps(paths_to_leaves, path, indexes, i, direction) ==
    IF i >= Max(indexes)
    THEN paths_to_leaves
    ELSE LET complete_path == Append(path, IntKey(i))
         IN  FillListGaps(
                 IF i \notin indexes
                 THEN DictSet(paths_to_leaves, complete_path, GapsFiller(direction, complete_path))
                 ELSE paths_to_leaves,
                 path, indexes, i + 1, direction)

\* `for path, indexes in paths_to_lists.items()`, from the k-th item on
RECURSIVE FillGaps(_, _, _, _)
FillGaps(paths_to_leaves, paths_to_lists, k, direction) ==
    IF k > Len(paths_to_lists)
    THEN paths_to_leaves
    ELSE FillGaps(FillListGaps(paths_to_leaves, paths_to_lists[k].key,
                               paths_to_lists[k].value, 0, direction),
                  paths_to_lists, k + 1, direction)

\* the dict comprehension of _make_paths_to_leaves, from the k-th entry on
RECURSIVE FieldLeaves(_, _, _, _)
FieldLeaves(paths_to_leaves, fields_to_paths, k, direction) ==
    IF k > Len(fields_to_paths)
    THEN paths_to_leaves
    ELSE FieldLeaves(
             IF fields_to_paths[k].path.kind = "path"
             THEN DictSet(paths_to_leaves, fields_to_paths[k].path.path,
                          FieldCrown(direction, fields_to_paths[k].field.id))
             ELSE paths_to_leaves,
             fields_to_paths, k + 1, direction)

\* BuiltinStructureMaker._make_paths_to_leaves
MakePathsToLeaves(fields_to_paths, direction) ==
    LET paths_to_leaves == FieldLeaves(<<>>, fields_to_paths, 1, direction)
        paths_to_lists == GetPathsToList(DictKeys(paths_to_leaves))
    IN  IF paths_to_lists.kind = "CannotProvide"
        THEN paths_to_lists
        ELSE Returned(FillGaps(paths_to_leaves, paths_to_lists.value, 1, direction), <<>>)

\* the list `skipped_required_fields` of make_inp_structure
SkippedRequiredFields(fields_to_paths) ==
    LET at == SelectSeq(fields_to_paths, LAMBDA fp : fp.path.kind = "None" /\ fp.field.is_required)
    IN  [i \in DOMAIN at |-> at[i].field.id]

\* faulty variant: required fields without a path are let through
MakeInpStructureUnchecked(l) ==
    LET fields_to_paths == MapFields(l, 1)
        paths_to_leaves == MakePathsToLeaves(fields_to_paths, "inp")
        validated == ValidateStructure(fields_to_paths)
    IN  IF paths_to_leaves.kind = "CannotProvide"
        THEN paths_to_leaves
        ELSE IF validated.kind = "CannotProvide"
             THEN validated
             ELSE paths_to_leaves

\* BuiltinStructureMaker.make_inp_structure
MakeInpStructure(l) ==
    LET fields_to_paths == MapFields(l, 1)
        paths_to_leaves == MakePathsToLeaves(fields_to_paths, "inp")
        validated == ValidateStructure(fields_to_paths)
    IN  IF SkippedRequiredFields(fields_to_paths) # <<>>
        THEN Raised(LayoutError("Required fields {skipped_required_fields} are skipped",
                                SkippedRequiredFields(fields_to_paths)), <<>>)
        ELSE IF paths_to_leaves.kind = "CannotProvide"
             THEN paths_to_leaves
             ELSE IF validated.kind = "CannotProvide"
                  THEN validated
                  ELSE paths_to_leaves

\* BuiltinStructureMaker.make_out_structure
MakeOutStructure(l) ==
    LET fields_to_paths == MapFields(l, 1)
        paths_to_leaves == MakePathsToLeaves(fields_to_paths, "out")
        validated == ValidateStructure(fields_to_paths)
    IN  IF paths_to_leaves.kind = "CannotProvide"
        THEN paths_to_leaves
        ELSE IF validated.kind = "CannotProvide"
             THEN validated
             ELSE paths_to_leaves

----------------------------------------------------------------------------
\* Building the structure of a name layout

\* the key paths the map provider returns: list elements of the root, a
\* dict entry, and a dict entry and a list element below it
KeyPaths ==
    {<<IntKey(i)>> : i \in 0..MaxIndex}
    \cup {<<StrKey("x")>>, <<StrKey("x"), StrKey("y")>>, <<StrKey("x"), IntKey(MaxIndex)>>}

MapResults == {MapDeclines, NonePath} \cup {SomePath(p) : p \in KeyPaths}

\* a shape of n fields, required or optional as `required` says
Shape(n, required) == [i \in 1..n |-> Field(i, required[i])]

\* skip nothing, keep everything, trim trailing underscores
DefaultSchema ==
    StructureSchema(NegRequestChecker(AnyRequestChecker), AnyRequestChecker, TRUE, "None", FALSE)

Schemas ==
    {StructureSchema(skip, only, trim, "None", as_list) :
        skip \in {NegRequestChecker(AnyRequestChecker), ExactFieldNameRC(FieldId(2))},
        only \in {AnyRequestChecker, NegRequestChecker(ExactFieldNameRC(FieldId(3)))},
        trim \in BOOLEAN, as_list \in BOOLEAN}

ExtraMoves == {NoExtraMove, ExtraTargets(<<FieldId(1)>>)}

\* what the map provider answers where the schema is what varies: it
\* declines, returns None, or remaps to the one key "x"
SchemaMapResults == {MapDeclines, NonePath, SomePath(<<StrKey("x")>>)}

\* the default schema with or without as_list, every shape, every answer of
\* the map provider
InitPaths ==
    /\ OthersIdle
    /\ provider = NoProvider
    /\ checker = NoChecker
    /\ pred = NoPred
    /\ \E n \in 1..MaxFields :
           \E required \in [1..n -> BOOLEAN], map \in [1..n -> MapResults],
              as_list \in BOOLEAN :
               layout = Layout(Shape(n, required), map,
                               [DefaultSchema EXCEPT !.as_list = as_list], NoExtraMove)
    /\ request = NoRequest
    /\ mediator = NoMediator
    /\ outcome = NotCalled

\* every schema and extra move, every shape
InitSchemas ==
    /\ OthersIdle
    /\ provider = NoProvider
    /\ checker = NoChecker
    /\ pred = NoPred
    /\ \E n \in 1..MaxFields :
           \E required \in [1..n -> BOOLEAN], map \in [1..n -> SchemaMapResults],
              schema \in Schemas, extra_move \in ExtraMoves :
               layout = Layout(Shape(n, required), map, schema, extra_move)
    /\ request = NoRequest
    /\ mediator = NoMediator
    /\ outcome = NotCalled

\* _map_fields(mediator, request, schema, extra_move)
MapFieldsCall ==
    /\ outcome = NotCalled
    /\ outcome' = Returned(MapFields(layout, 1), <<Call("_map_fields", <<>>)>>)
    /\ UNCHANGED <<provider, checker, pred, layout, request, mediator, others>>

\* make_inp_structure(mediator, request, extra_move)
MakeInpStructureCall ==
    /\ outcome = NotCalled
    /\ outcome' = WithCallsBefore(<<Call("make_inp_structure", <<>>)>>, MakeInpStructure(layout))
    /\ UNCHANGED <<provider, checker, pred, layout, request, mediator, others>>

\* make_out_structure(mediator, request, extra_move)
MakeOutStructureCall ==
    /\ outcome = NotCalled
    /\ outcome' = WithCallsBefore(<<Call("make_out_structure", <<>>)>>, MakeOutStructure(layout))
    /\ UNCHANGED <<provider, checker, pred, layout, request, mediator, others>>

NextStructure == MapFieldsCall \/ MakeInpStructureCall \/ MakeOutStructureCall

SpecPaths == InitPaths /\ [][NextStructure]_vars

SpecSchemas == InitSchemas /\ [][NextStructure]_vars

----------------------------------------------------------------------------
\* Claims on the structure of a name layout

\* the last call was make_inp_structure or make_out_structure
StructureCalled == CalledOp("make_inp_structure") \/ CalledOp("make_out_structure")

\* what _map_fields yields for the layout
FieldsToPaths == MapFields(layout, 1)

\* the entries of FieldsToPaths with a path that is not None, and their paths
MappedEntries == {i \in DOMAIN FieldsToPaths : FieldsToPaths[i].path.kind = "path"}

PathOf(i) == FieldsToPaths[i].path.path

FieldsMappedTo(p) == {FieldsToPaths[i].field.id : i \in {j \in MappedEntries : PathOf(j) = p}}

\* the paths two or more fields are mapped to
CollidingPaths == {p \in {PathOf(i) : i \in MappedEntries} : Cardinality(FieldsMappedTo(p)) > 1}

FailsTerminalDemonstrative ==
    /\ outcome.kind = "CannotProvide"
    /\ outcome.error.is_terminal
    /\ outcome.error.is_demonstrative

ErrorText == outcome.error.message.text

\* the error names every colliding path together with every field mapped to it
NamesCollisions ==
    /\ ErrorText = "Paths {duplicates} pointed to several fields"
    /\ {d.path : d \in outcome.error.message.details} = CollidingPaths
    /\ \A d \in outcome.error.message.details : Range(d.fields) = FieldsMappedTo(d.path)

\* a required field is left without a path, which make_inp_structure checks first
RequiredSkipped ==
    /\ CalledOp("make_inp_structure")
    /\ \E i \in DOMAIN FieldsToPaths :
           FieldsToPaths[i].path.kind = "None" /\ FieldsToPaths[i].field.is_required

\* two paths continue the same parent, one with a list index and one with a
\* string key
MixedKeys ==
    \E i, j \in MappedEntries :
        \E k \in 1..Len(PathOf(i)) :
            /\ k <= Len(PathOf(j))
            /\ SubSeq(PathOf(i), 1, k - 1) = SubSeq(PathOf(j), 1, k - 1)
            /\ IsInt(PathOf(i)[k])
            /\ ~IsInt(PathOf(j)[k])

\* C12 as stated: whenever two or more fields end up with the same non-None
\* path, construction fails with a terminal, demonstrative CannotProvide that
\* names every colliding path with every field mapped to it.
C12_DuplicatesAlwaysNamed ==
    (StructureCalled /\ CollidingPaths # {}) =>
        FailsTerminalDemonstrative /\ NamesCollisions

\* C12 as amended: with colliding paths construction always fails with a
\* terminal, demonstrative CannotProvide and returns no mapping; the error is
\* the one naming every colliding path and its fields unless an earlier check
\* fails first: a skipped required field (input), then inconsistent path
\* elements.
C12_DuplicatesFail ==
    (StructureCalled /\ CollidingPaths # {}) =>
        /\ FailsTerminalDemonstrative
        /\ IF RequiredSkipped
           THEN ErrorText = "Required fields {skipped_required_fields} are skipped"
           ELSE IF MixedKeys
                THEN ErrorText = "Inconsistent path elements at {sub_path}"
                ELSE NamesCollisions

\* two fields collided and the error names the path and both fields
C12_Witness ==
    /\ StructureCalled
    /\ CollidingPaths # {}
    /\ FailsTerminalDemonstrative
    /\ NamesCollisions
    /\ \E d \in outcome.error.message.details : Len(d.fields) = 2

\* one path is a strict prefix of another
StrictPrefix(p, q) == IsPrefix(p, q) /\ p # q

PrefixConflict == \E i, j \in MappedEntries : StrictPrefix(PathOf(i), PathOf(j))

\* the paths of the field leaves of a returned mapping
FieldLeafPaths ==
    {outcome.value[i].key :
        i \in {j \in DOMAIN outcome.value :
                  outcome.value[j].value.kind \in {"InpFieldCrown", "OutFieldCrown"}}}

\* C13: whenever the path of one field is a strict prefix of the path of
\* another, construction fails with a terminal, demonstrative CannotProvide;
\* so in a returned mapping no field path is a strict prefix of another.
C13_NoPrefixConflict ==
    StructureCalled =>
        /\ PrefixConflict => FailsTerminalDemonstrative
        /\ outcome.kind = "return" =>
               \A p, q \in FieldLeafPaths : ~StrictPrefix(p, q)

\* a prefix conflict alone made construction fail with the prefix error
C13_Witness ==
    /\ StructureCalled
    /\ PrefixConflict
    /\ CollidingPaths = {}
    /\ FailsTerminalDemonstrative
    /\ ErrorText = "Path to the field must not be a prefix of another path. "

\* the field is one of the extra targets, which _map_fields passes over
IsExtraTarget(field) ==
    layout.extra_move.kind = "ExtraTargets" /\ field.id \in Range(layout.extra_move.fields)

\* the returned mapping has a field leaf for the field
HasFieldLeaf(field) ==
    \E i \in DOMAIN outcome.value : outcome.value[i].value = InpFieldCrown(field.id)

\* the required fields _map_fields leaves without a path
SkippedRequired ==
    {FieldsToPaths[i].field.id :
        i \in {j \in DOMAIN FieldsToPaths :
                  FieldsToPaths[j].path.kind = "None" /\ FieldsToPaths[j].field.is_required}}

NamesSkippedRequired ==
    /\ ErrorText = "Required fields {skipped_required_fields} are skipped"
    /\ Range(outcome.error.message.details) = SkippedRequired

\* C14 as stated: if make_inp_structure succeeds, each required field of the
\* shape has a field leaf in the result; if a required field has no path,
\* construction fails with a terminal, demonstrative error naming those fields.
C14_EveryRequiredFieldMapped ==
    CalledOp("make_inp_structure") =>
        /\ outcome.kind = "return" =>
               \A field \in Range(layout.fields) : field.is_required => HasFieldLeaf(field)
        /\ SkippedRequired # {} => FailsTerminalDemonstrative /\ NamesSkippedRequired

\* C14 as amended: if make_inp_structure succeeds, each required field of the
\* shape that is not an extra target has a field leaf in the result (extra
\* targets get no leaf, required or not); if a required field that is not an
\* extra target has no path, construction fails with a terminal,
\* demonstrative error naming exactly those fields.
C14_RequiredNonTargetsMapped ==
    CalledOp("make_inp_structure") =>
        /\ outcome.kind = "return" =>
               \A field \in Range(layout.fields) :
                   /\ (field.is_required /\ ~IsExtraTarget(field)) => HasFieldLeaf(field)
                   /\ IsExtraTarget(field) => ~HasFieldLeaf(field)
        /\ SkippedRequired # {} => FailsTerminalDemonstrative /\ NamesSkippedRequired

\* a layout was built whose required fields have leaves, but for the
\* required field that is an extra target
C14_Witness ==
    /\ CalledOp("make_inp_structure")
    /\ outcome.kind = "return"
    /\ \E field \in Range(layout.fields) :
           field.is_required /\ ~IsExtraTarget(field) /\ HasFieldLeaf(field)
    /\ \E field \in Range(layout.fields) :
           field.is_required /\ IsExtraTarget(field) /\ ~HasFieldLeaf(field)

\* make_inp_structure builds a loading layout, make_out_structure a dumping one
Direction == IF CalledOp("make_inp_structure") THEN "inp" ELSE "out"

\* the leaf paths of the returned mapping and their proper prefixes
ResultPaths == Range(DictKeys(outcome.value))

ParentPaths == UNION {{SubSeq(p, 1, k) : k \in 0..(Len(p) - 1)} : p \in ResultPaths}

\* the integer keys that continue the parent path in the returned mapping
IntChildren(parent) ==
    {p[Len(parent) + 1].int :
        p \in {q \in ResultPaths :
                  /\ Len(q) > Len(parent)
                  /\ IsPrefix(parent, q)
                  /\ IsInt(q[Len(parent) + 1])}}

\* ListCrown.list_len over the indexes of its map
ListLen(indexes) == Max(indexes) + 1

\* some field is mapped to the i-th element of the parent or below it
FieldMappedUnder(parent, i) ==
    \E e \in MappedEntries : IsPrefix(Append(parent, IntKey(i)), PathOf(e))

\* C15: in every returned path-to-leaf mapping the integer child keys of a
\* parent path are exactly 0..max, every index no field is mapped under is a
\* placeholder leaf of the direction, every mapped field keeps its field
\* leaf, and the list length is max + 1.
C15_ListsHaveNoGaps ==
    (StructureCalled /\ outcome.kind = "return") =>
        /\ \A parent \in ParentPaths :
               IntChildren(parent) # {} =>
                   /\ IntChildren(parent) = 0..Max(IntChildren(parent))
                   /\ ListLen(IntChildren(parent)) = Cardinality(IntChildren(parent))
                   /\ \A i \in IntChildren(parent) :
                          ~FieldMappedUnder(parent, i) =>
                              /\ DictHas(outcome.value, Append(parent, IntKey(i)))
                              /\ DictGet(outcome.value, Append(parent, IntKey(i))) =
                                     (IF Direction = "inp" THEN InpNoneCrown
                                      ELSE OutNoneCrown(DefaultValue("None")))
        /\ \A e \in MappedEntries :
               /\ DictHas(outcome.value, PathOf(e))
               /\ DictGet(outcome.value, PathOf(e)) =
                      FieldCrown(Direction, FieldsToPaths[e].field.id)

\* a list with fields at 0 and at the largest index got placeholders between
C15_Witness ==
    /\ StructureCalled
    /\ outcome.kind = "return"
    /\ FieldMappedUnder(<<>>, 0)
    /\ FieldMappedUnder(<<>>, MaxIndex)
    /\ ~FieldMappedUnder(<<>>, 1)
    /\ DictHas(outcome.value, <<IntKey(1)>>)
    /\ DictGet(outcome.value, <<IntKey(1)>>).kind \in {"InpNoneCrown", "OutNoneCrown"}
    /\ ListLen(IntChildren(<<>>)) = MaxIndex + 1

\* the optional fields mapped to a path whose last element is a list index
OptionalAtList ==
    {FieldsToPaths[e].field.id :
        e \in {m \in MappedEntries :
                  FieldsToPaths[m].field.is_optional /\ IsInt(PathOf(m)[Len(PathOf(m))])}}

NamesOptionalAtList ==
    /\ ErrorText = "Optional fields {optional_fields_at_list} can not be mapped to list elements"
    /\ Range(outcome.error.message.details) = OptionalAtList

\* C16 as stated: whenever an optional field has a path whose last element
\* is an integer index, construction fails with a terminal, demonstrative
\* CannotProvide listing those fields.
C16_OptionalAtListAlwaysListed ==
    (StructureCalled /\ OptionalAtList # {}) =>
        FailsTerminalDemonstrative /\ NamesOptionalAtList

\* C16 as amended: with an optional field mapped to a list element
\* construction always fails with a terminal, demonstrative CannotProvide, so
\* no returned layout has one (as_list with a mapped optional field
\* included); the error lists those fields unless an earlier check fails
\* first: skipped required fields (input), inconsistent path elements,
\* duplicate paths, a prefix conflict, in this order.
C16_OptionalAtListFails ==
    StructureCalled =>
        /\ outcome.kind = "return" => OptionalAtList = {}
        /\ (layout.schema.as_list
              /\ \E e \in MappedEntries :
                     /\ FieldsToPaths[e].field.is_optional
                     /\ PathOf(e) = <<GenerateKey(layout.schema, layout.fields, e)>>) =>
               FailsTerminalDemonstrative
        /\ OptionalAtList # {} =>
               /\ FailsTerminalDemonstrative
               /\ IF RequiredSkipped
                  THEN ErrorText = "Required fields {skipped_required_fields} are skipped"
                  ELSE IF MixedKeys
                       THEN ErrorText = "Inconsistent path elements at {sub_path}"
                       ELSE IF CollidingPaths # {}
                            THEN NamesCollisions
                            ELSE IF PrefixConflict
                                 THEN ErrorText =
                                          "Path to the field must not be a prefix of another path. "
                                 ELSE NamesOptionalAtList

\* an optional field took its list index from as_list and construction
\* failed listing it
C16_Witness ==
    /\ StructureCalled
    /\ layout.schema.as_list
    /\ \E i \in DOMAIN layout.fields :
           layout.fields[i].is_optional /\ layout.map[i].kind = "CannotProvide"
    /\ OptionalAtList # {}
    /\ FailsTerminalDemonstrative
    /\ NamesOptionalAtList

\* the positions of the fields of the shape that are not extra targets
NonTargets ==
    SelectSeq([i \in DOMAIN layout.fields |-> i], LAMBDA i : ~IsExtraTarget(layout.fields[i]))

SkipAccepts(field) == ApplyRc(layout.schema.skip, field)

OnlyAccepts(field) == ApplyRc(layout.schema.only, field)

\* the path the i-th field of the shape is to get
DecidedPath(i) ==
    IF \/ layout.map[i].kind = "None"
       \/ SkipAccepts(layout.fields[i])
       \/ ~OnlyAccepts(layout.fields[i])
    THEN NonePath
    ELSE IF layout.map[i].kind = "path"
         THEN layout.map[i]
         ELSE SomePath(<<GenerateKey(layout.schema, layout.fields, i)>>)

\* C17: _map_fields yields, for every field that is not an extra target and
\* in the order of the shape, the path None when the map provider returns
\* None, the skip checker accepts the field or the only checker rejects it,
\* and otherwise the path the map provider returns or, when it declines, the
\* 1-element path (generated_key,); remapped fields are filtered as well.
C17_PathDecision ==
    CalledOp("_map_fields") =>
        outcome.value =
            [k \in DOMAIN NonTargets |->
                FieldAndPath(layout.fields[NonTargets[k]], DecidedPath(NonTargets[k]))]

\* a remapped field was dropped by the skip checker, another one fell back
\* to its generated key
C17_Witness ==
    /\ CalledOp("_map_fields")
    /\ \E k \in DOMAIN outcome.value :
           /\ layout.map[NonTargets[k]].kind = "path"
           /\ SkipAccepts(outcome.value[k].field)
           /\ outcome.value[k].path = NonePath
    /\ \E k \in DOMAIN outcome.value :
           /\ layout.map[NonTargets[k]].kind = "CannotProvide"
           /\ outcome.value[k].path.kind = "path"

----------------------------------------------------------------------------
\* Extra moves and extra policies (BuiltinExtraMoveAndPoliciesMaker)

\* most leaves of the paths_to_leaves given to make_extra_policies
MaxLeaves == 2

\* the sentinels of extra_in / extra_out and the dict extra policies
ExtraSkip == [kind |-> "ExtraSkip", value |-> <<>>]

ExtraForbid == [kind |-> "ExtraForbid", value |-> <<>>]

ExtraKwargs == [kind |-> "ExtraKwargs", value |-> <<>>]

ExtraCollect == [kind |-> "ExtraCollect", value |-> <<>>]

\* the other values of extra_in / extra_out: a callable, the name of a
\* field, a sequence of names
ExtraCallable(fn) == [kind |-> "callable", value |-> <<fn>>]

ExtraName(name) == [kind |-> "str", value |-> <<name>>]

ExtraNames(names) == [kind |-> "names", value |-> names]

ExtraValues ==
    {ExtraSkip, ExtraForbid, ExtraKwargs, ExtraCallable("fn"), ExtraName("rest"),
     ExtraNames(<<"rest", "more">>)}

\* ExtraMoveAndPoliciesSchema
ExtraMoveAndPoliciesSchema(extra_in, extra_out) == [extra_in |-> extra_in, extra_out |-> extra_out]

\* the schema provide_schema gives and the paths_to_leaves of the call
ExtraLayout(schema, paths_to_leaves) ==
    [kind |-> "extra", schema |-> schema, paths_to_leaves |-> paths_to_leaves]

\* extra moves besides None and ExtraTargets
ExtraExtract(func) == [kind |-> "ExtraExtract", func |-> func]

\* a call that ends in a TypeError
RaisedTypeError(calls) == [kind |-> "TypeError", calls |-> calls]

\* path[i] and path[:i] with the indexes of Python: from 0, negative ones
\* count from the end
PyItem(path, i) == IF i >= 0 THEN path[i + 1] ELSE path[Len(path) + i + 1]

PySliceTo(path, i) == IF i >= 0 THEN SubSeq(path, 1, i) ELSE SubSeq(path, 1, Len(path) + i)

\* the inner loop of _paths_to_branches: i from len(path) - 1 down to -1
RECURSIVE BranchesOf(_, _, _)
BranchesOf(path, i, yielded_branch_path) ==
    IF i < -1
    THEN <<>>
    ELSE IF PySliceTo(path, i) \in yielded_branch_path
         THEN <<>>
         ELSE <<[sub_path |-> PySliceTo(path, i), key |-> PyItem(path, i)]>>
              \o BranchesOf(path, i - 1, yielded_branch_path)

\* _paths_to_branches, from the k-th path on; yielded_branch_path stays empty
RECURSIVE PathsToBranches(_, _)
PathsToBranches(paths, k) ==
    IF k > Len(paths)
    THEN <<>>
    ELSE BranchesOf(paths[k], Len(paths[k]) - 1, {}) \o PathsToBranches(paths, k + 1)

\* faulty variant: forbid is turned into the skip policy
GetExtraPolicyForbidAsSkip(schema) ==
    IF schema.extra_in = ExtraSkip \/ schema.extra_in = ExtraForbid
    THEN ExtraSkip
    ELSE ExtraCollect

\* BuiltinExtraMoveAndPoliciesMaker._get_extra_policy
GetExtraPolicy(schema) ==
    IF schema.extra_in = ExtraSkip
    THEN ExtraSkip
    ELSE IF schema.extra_in = ExtraForbid
         THEN ExtraForbid
         ELSE ExtraCollect

\* faulty variant: a list index is rejected under every policy
RECURSIVE MakeExtraPoliciesLoopNoLists(_, _, _, _)
MakeExtraPoliciesLoopNoLists(branches, k, policy, path_to_extra_policy) ==
    IF k > Len(branches)
    THEN Returned(path_to_extra_policy, <<>>)
    ELSE IF IsInt(branches[k].key)
         THEN Raised(LayoutError("Can not use collecting extra_in with list mapping", <<>>), <<>>)
         ELSE MakeExtraPoliciesLoopNoLists(
                  branches, k + 1, policy,
                  DictSet(path_to_extra_policy, branches[k].sub_path, policy))

\* the loop of make_extra_policies over the branches, from the k-th on
RECURSIVE MakeExtraPoliciesLoop(_, _, _, _)
MakeExtraPoliciesLoop(branches, k, policy, path_to_extra_policy) ==
    IF k > Len(branches)
    THEN Returned(path_to_extra_policy, <<>>)
    ELSE IF policy = ExtraCollect /\ IsInt(branches[k].key)
         THEN Raised(LayoutError("Can not use collecting extra_in with list mapping", <<>>), <<>>)
         ELSE MakeExtraPoliciesLoop(
                  branches, k + 1, policy,
                  DictSet(path_to_extra_policy, branches[k].sub_path, policy))

\* BuiltinExtraMoveAndPoliciesMaker.make_extra_policies
MakeExtraPolicies(schema, paths_to_leaves) ==
    LET policy == GetExtraPolicy(schema)
    IN  MakeExtraPoliciesLoop(PathsToBranches(DictKeys(paths_to_leaves), 1), 1, policy,
                              <<[key |-> <<>>, value |-> policy]>>)

\* BuiltinExtraMoveAndPoliciesMaker._create_extra_targets; tuple(extra) of a
\* value that is no iterable raises TypeError
CreateExtraTargets(extra) ==
    IF extra.kind = "str"
    THEN Returned(ExtraTargets(<<extra.value[1]>>), <<>>)
    ELSE IF extra.kind = "names"
         THEN Returned(ExtraTargets(extra.value), <<>>)
         ELSE RaisedTypeError(<<>>)

\* faulty variant: a name is taken for a sequence of names, one per letter
MakeOutExtraMoveSplitNames(schema) ==
    IF schema.extra_out = ExtraSkip
    THEN Returned(NoExtraMove, <<>>)
    ELSE IF schema.extra_out.kind = "callable"
         THEN Returned(ExtraExtract(schema.extra_out.value[1]), <<>>)
         ELSE IF schema.extra_out.kind = "str"
              THEN Returned(ExtraTargets([i \in 1..Len(schema.extra_out.value[1]) |->
                                SubSeq(schema.extra_out.value[1], i, i)]), <<>>)
              ELSE CreateExtraTargets(schema.extra_out)

\* BuiltinExtraMoveAndPoliciesMaker.make_out_extra_move
MakeOutExtraMove(schema) ==
    IF schema.extra_out = ExtraSkip
    THEN Returned(NoExtraMove, <<>>)
    ELSE IF schema.extra_out.kind = "callable"
         THEN Returned(ExtraExtract(schema.extra_out.value[1]), <<>>)
         ELSE CreateExtraTargets(schema.extra_out)

\* a string that is callable as well (an instance of a str subclass that
\* defines __call__)
ExtraCallableName(name) == [kind |-> "callable_str", value |-> <<name>>]

\* callable(extra)
IsCallable(extra) == extra.kind \in {"callable", "callable_str"}

\* the values of extra_in
ExtraInValues == ExtraValues \cup {ExtraCallableName("rest")}

\* ExtraSaturate(func)
ExtraSaturate(func) == [kind |-> "ExtraSaturate", func |-> func]

\* faulty variant: a string is turned into targets before callable() is asked
MakeInpExtraMoveNamesFirst(schema) ==
    IF schema.extra_in \in {ExtraForbid, ExtraSkip}
    THEN Returned(NoExtraMove, <<>>)
    ELSE IF schema.extra_in = ExtraKwargs
         THEN Returned(ExtraKwargs, <<>>)
         ELSE IF schema.extra_in.kind \in {"str", "callable_str"}
              THEN Returned(ExtraTargets(<<schema.extra_in.value[1]>>), <<>>)
              ELSE IF IsCallable(schema.extra_in)
                   THEN Returned(ExtraSaturate(schema.extra_in.value[1]), <<>>)
                   ELSE CreateExtraTargets(schema.extra_in)

\* BuiltinExtraMoveAndPoliciesMaker.make_inp_extra_move
MakeInpExtraMove(schema) ==
    IF schema.extra_in \in {ExtraForbid, ExtraSkip}
    THEN Returned(NoExtraMove, <<>>)
    ELSE IF schema.extra_in = ExtraKwargs
         THEN Returned(ExtraKwargs, <<>>)
         ELSE IF IsCallable(schema.extra_in)
              THEN Returned(ExtraSaturate(schema.extra_in.value[1]), <<>>)
              ELSE CreateExtraTargets(schema.extra_in)

\* the leaf paths given to make_extra_policies: one or two keys, a list
\* index at either place
ExtraKeys == {StrKey("x"), StrKey("y"), IntKey(0)}

ExtraPaths == {<<k>> : k \in ExtraKeys} \cup {<<k, m>> : k, m \in ExtraKeys}

\* the dict of leaves at the given paths
LeavesAt(paths) == [i \in DOMAIN paths |-> [key |-> paths[i], value |-> InpFieldCrown(FieldId(i))]]

InitExtra ==
    /\ OthersIdle
    /\ provider = NoProvider
    /\ checker = NoChecker
    /\ pred = NoPred
    /\ \E n \in 0..MaxLeaves :
           \E paths \in [1..n -> ExtraPaths], extra_in \in ExtraInValues,
              extra_out \in ExtraValues :
               /\ \A i, j \in 1..n : paths[i] = paths[j] => i = j
               /\ layout = ExtraLayout(ExtraMoveAndPoliciesSchema(extra_in, extra_out),
                                       LeavesAt(paths))
    /\ request = NoRequest
    /\ mediator = NoMediator
    /\ outcome = NotCalled

\* make_extra_policies(mediator, request, paths_to_leaves)
MakeExtraPoliciesCall ==
    /\ outcome = NotCalled
    /\ outcome' = WithCallsBefore(<<Call("make_extra_policies", <<>>)>>,
                                  MakeExtraPolicies(layout.schema, layout.paths_to_leaves))
    /\ UNCHANGED <<provider, checker, pred, layout, request, mediator, others>>

\* make_out_extra_move(mediator, request)
MakeOutExtraMoveCall ==
    /\ outcome = NotCalled
    /\ outcome' = WithCallsBefore(<<Call("make_out_extra_move", <<>>)>>,
                                  MakeOutExtraMove(layout.schema))
    /\ UNCHANGED <<provider, checker, pred, layout, request, mediator, others>>

\* make_inp_extra_move(mediator, request)
MakeInpExtraMoveCall ==
    /\ outcome = NotCalled
    /\ outcome' = WithCallsBefore(<<Call("make_inp_extra_move", <<>>)>>,
                                  MakeInpExtraMove(layout.schema))
    /\ UNCHANGED <<provider, checker, pred, layout, request, mediator, others>>

NextExtra == MakeExtraPoliciesCall \/ MakeOutExtraMoveCall \/ MakeInpExtraMoveCall

SpecExtra == InitExtra /\ [][NextExtra]_vars

\* the leaf paths of the call and their proper prefixes, the root included
LeafPaths == Range(DictKeys(layout.paths_to_leaves))

ProperPrefixes == UNION {{SubSeq(p, 1, k) : k \in 0..(Len(p) - 1)} : p \in LeafPaths}

\* the root policy as extra_in gives it
RootPolicy ==
    IF layout.schema.extra_in.kind = "ExtraSkip"
    THEN ExtraSkip
    ELSE IF layout.schema.extra_in.kind = "ExtraForbid" THEN ExtraForbid ELSE ExtraCollect

\* C18: when make_extra_policies succeeds, the keys of its result are the
\* root path and every proper prefix of every leaf path, and every key
\* carries the root policy: Skip for skip, Forbid for forbid, Collect for
\* every other extra_in.
C18_PolicyPropagates ==
    (CalledOp("make_extra_policies") /\ outcome.kind = "return") =>
        /\ Range(DictKeys(outcome.value)) = {<<>>} \cup ProperPrefixes
        /\ \A i, j \in DOMAIN outcome.value :
               outcome.value[i].key = outcome.value[j].key => i = j
        /\ \A i \in DOMAIN outcome.value : outcome.value[i].value = RootPolicy

\* a Collect policy went from the root to the branch below it
C18_Witness ==
    /\ CalledOp("make_extra_policies")
    /\ outcome.kind = "return"
    /\ layout.schema.extra_in.kind = "str"
    /\ DictHas(outcome.value, <<StrKey("x")>>)
    /\ DictGet(outcome.value, <<StrKey("x")>>) = ExtraCollect
    /\ DictGet(outcome.value, <<>>) = ExtraCollect

\* some leaf path has an integer key at some position
ListInPaths == \E p \in LeafPaths : \E k \in DOMAIN p : IsInt(p[k])

\* C19: make_extra_policies fails with a terminal, demonstrative
\* CannotProvide iff the root policy is Collect and some leaf path has an
\* integer key at any position; under Skip and Forbid it never fails.
C19_CollectRejectsLists ==
    CalledOp("make_extra_policies") =>
        /\ outcome.kind \in {"return", "CannotProvide"}
        /\ outcome.kind = "CannotProvide" <=> (RootPolicy = ExtraCollect /\ ListInPaths)
        /\ outcome.kind = "CannotProvide" =>
               /\ FailsTerminalDemonstrative
               /\ ErrorText = "Can not use collecting extra_in with list mapping"

\* Collect met a list index that is not the last key of its path
C19_Witness ==
    /\ CalledOp("make_extra_policies")
    /\ layout.schema.extra_in = ExtraKwargs
    /\ \E p \in LeafPaths : Len(p) = 2 /\ IsInt(p[1]) /\ ~IsInt(p[2])
    /\ \A p \in LeafPaths : \A k \in DOMAIN p : IsInt(p[k]) => k = 1 /\ Len(p) = 2
    /\ FailsTerminalDemonstrative

C21_InpExtraMove ==
    CalledOp("make_inp_extra_move") =>
        /\ outcome.kind = "return"
        /\ outcome.value =
               CASE layout.schema.extra_in.kind \in {"ExtraForbid", "ExtraSkip"} -> NoExtraMove
                 [] layout.schema.extra_in.kind = "ExtraKwargs" -> ExtraKwargs
                 [] layout.schema.extra_in.kind \in {"callable", "callable_str"} ->
                        ExtraSaturate(layout.schema.extra_in.value[1])
                 [] layout.schema.extra_in.kind = "str" ->
                        ExtraTargets(<<layout.schema.extra_in.value[1]>>)
                 [] OTHER -> ExtraTargets(layout.schema.extra_in.value)

\* a string that is callable became Saturate, not Targets
C21_Witness ==
    /\ CalledOp("make_inp_extra_move")
    /\ layout.schema.extra_in = ExtraCallableName("rest")
    /\ outcome.kind = "return"
    /\ outcome.value = ExtraSaturate("rest")

\* ---------------------------------------------------------------------------
\* BuiltinSievesMaker: which values of an output field are left out
\* ---------------------------------------------------------------------------

\* the output fields of a shape a sieves maker is given, the evaluations of
\* one sieve
MaxSieves == 2
MaxEvals == 2

\* the defaults of a field. A factory is modelled by the values its calls
\* return in turn (it starts over after the last one), a factory with self
\* by the attribute of the owner object it reads.
NoDefault == [kind |-> "NoDefault"]

DefaultFactory(factory) == [kind |-> "DefaultFactory", factory |-> factory]

DefaultFactoryWithSelf(factory) == [kind |-> "DefaultFactoryWithSelf", factory |-> factory]

\* default_factory() when the factory was called `calls` times before
CallFactory(factory, calls) == factory[(calls % Len(factory)) + 1]

\* default_factory_with_self(obj)
CallFactoryWithSelf(factory, obj) == obj[factory]

\* OutputField with its default
OutputField(i, default) == [id |-> FieldId(i), default |-> default]

\* with_default_clause(default, sieve): the sieve with its default attached
WithDefaultClause(default, sieve) == [sieve EXCEPT !.default_clause = default]

\* faulty variant: the factory is called once, when the sieve is created
CreateSieveFactoryCalledOnce(field) ==
    IF field.default.kind = "DefaultValue"
    THEN Returned(WithDefaultClause(field.default,
                      [differs_from |-> "value", captured |-> field.default.value,
                       default_clause |-> NoDefault]), <<>>)
    ELSE IF field.default.kind = "DefaultFactory"
         THEN Returned(WithDefaultClause(field.default,
                           [differs_from |-> "value",
                            captured |-> CallFactory(field.default.factory, 0),
                            default_clause |-> NoDefault]), <<>>)
         ELSE IF field.default.kind = "DefaultFactoryWithSelf"
              THEN Returned(WithDefaultClause(field.default,
                                [differs_from |-> "factory(obj)",
                                 captured |-> field.default.factory,
                                 default_clause |-> NoDefault]), <<>>)
              ELSE RaisedValueError(<<>>)

\* BuiltinSievesMaker._create_sieve: the lambda is the record of what it
\* captured and what it compares the value with
CreateSieve(field) ==
    IF field.default.kind = "DefaultValue"
    THEN Returned(WithDefaultClause(field.default,
                      [differs_from |-> "value", captured |-> field.default.value,
                       default_clause |-> NoDefault]), <<>>)
    ELSE IF field.default.kind = "DefaultFactory"
         THEN Returned(WithDefaultClause(field.default,
                           [differs_from |-> "factory()",
                            captured |-> field.default.factory,
                            default_clause |-> NoDefault]), <<>>)
         ELSE IF field.default.kind = "DefaultFactoryWithSelf"
              THEN Returned(WithDefaultClause(field.default,
                                [differs_from |-> "factory(obj)",
                                 captured |-> field.default.factory,
                                 default_clause |-> NoDefault]), <<>>)
              ELSE RaisedValueError(<<>>)

\* sieve(obj, value) when the factory it captured was called `calls` times
\* before: whether the value is kept, and the calls of the factory after it
Sieve(sieve, obj, value, calls) ==
    IF sieve.differs_from = "value"
    THEN [keep |-> value # sieve.captured, calls |-> calls]
    ELSE IF sieve.differs_from = "factory()"
         THEN [keep |-> value # CallFactory(sieve.captured, calls), calls |-> calls + 1]
         ELSE [keep |-> value # CallFactoryWithSelf(sieve.captured, obj), calls |-> calls]

\* request.shape.fields_dict[leaf.id]
FieldsDict(fields, id) == fields[CHOOSE i \in DOMAIN fields : fields[i].id = id]

\* the loop of make_sieves from item k of paths_to_leaves on
RECURSIVE MakeSievesLoop(_, _, _, _, _)
MakeSievesLoop(fields, omit_default, paths_to_leaves, k, result) ==
    IF k > Len(paths_to_leaves)
    THEN Returned(result, <<>>)
    ELSE LET path == paths_to_leaves[k].key
             leaf == paths_to_leaves[k].value
         IN  IF leaf.kind = "OutFieldCrown"
             THEN LET field == FieldsDict(fields, leaf.id)
                  IN  IF field.default # NoDefault /\ ApplyRc(omit_default, field)
                      THEN LET sieve == CreateSieve(field)
                           IN  IF sieve.kind # "return"
                               THEN sieve
                               ELSE MakeSievesLoop(fields, omit_default, paths_to_leaves,
                                                   k + 1, DictSet(result, path, sieve.value))
                      ELSE MakeSievesLoop(fields, omit_default, paths_to_leaves, k + 1, result)
             ELSE MakeSievesLoop(fields, omit_default, paths_to_leaves, k + 1, result)

\* BuiltinSievesMaker.make_sieves
MakeSieves(fields, omit_default, paths_to_leaves) ==
    MakeSievesLoop(fields, omit_default, paths_to_leaves, 1, <<>>)

\* the defaults, omit_default checkers and owner objects of the runs
Factories == {<<0>>, <<0, MaxData>>}

Defaults ==
    {NoDefault} \cup {DefaultValue(v) : v \in Data}
        \cup {DefaultFactory(f) : f \in Factories} \cup {DefaultFactoryWithSelf("b")}

OmitDefaults ==
    {AnyRequestChecker, ExactFieldNameRC(FieldId(1)), NegRequestChecker(AnyRequestChecker)}

Objects == [{"b"} -> Data]

\* every field is a leaf under its own id, after a leaf that is no field
SieveLeaves(fields) ==
    <<[key |-> <<StrKey("gap")>>, value |-> OutNoneCrown(DefaultValue(0))]>>
        \o [i \in DOMAIN fields |->
               [key |-> <<StrKey(fields[i].id)>>, value |-> OutFieldCrown(fields[i].id)]]

\* a sieves maker before make_sieves: `made` is the result of make_sieves,
\* evals and calls count, per field, the evaluations of its sieve and the
\* calls of its factory
SievesMaker(fields, omit_default) ==
    [kind |-> "maker", fields |-> fields, omit_default |-> omit_default,
     paths_to_leaves |-> SieveLeaves(fields), made |-> <<>>,
     evals |-> [i \in DOMAIN fields |-> 0], calls |-> [i \in DOMAIN fields |-> 0]]

InitSieves ==
    /\ provider = NoProvider
    /\ checker = NoChecker
    /\ pred = NoPred
    /\ layout = NoLayout
    /\ request = NoRequest
    /\ mediator = NoMediator
    /\ \E n \in 1..MaxSieves :
           \E defaults \in [1..n -> Defaults], omit_default \in OmitDefaults :
               sieves = SievesMaker([i \in 1..n |-> OutputField(i, defaults[i])], omit_default)
    /\ compiler = NoCompiler
    /\ figure = NoFigure
    /\ hierarchy = NoHierarchy
    /\ outcome = NotCalled

\* make_sieves(mediator, request, paths_to_leaves)
MakeSievesCall ==
    /\ outcome = NotCalled
    /\ LET r == MakeSieves(sieves.fields, sieves.omit_default, sieves.paths_to_leaves)
       IN  /\ outcome' = WithCallsBefore(<<Call("make_sieves", <<>>)>>, r)
           /\ sieves' = [sieves EXCEPT !.made = IF r.kind = "return" THEN r.value ELSE <<>>]
    /\ UNCHANGED <<provider, checker, pred, layout, request, mediator, compiler,
                   figure, hierarchy>>

\* sieve(obj, value) of one of the sieves that were made; the outcome keeps
\* the field, the owner object and the value with the answer
SieveCall ==
    /\ outcome.kind = "return"
    /\ \E k \in DOMAIN sieves.made, obj \in Objects, value \in Data :
           LET path == sieves.made[k].key
               i == CHOOSE i \in DOMAIN sieves.fields :
                        path = <<StrKey(sieves.fields[i].id)>>
               r == Sieve(sieves.made[k].value, obj, value, sieves.calls[i])
           IN  /\ sieves.evals[i] < MaxEvals
               /\ sieves' = [sieves EXCEPT !.evals[i] = @ + 1, !.calls[i] = r.calls]
               /\ outcome' = Returned([field |-> i, obj |-> obj, value |-> value,
                                       keep |-> r.keep],
                                      <<Call("sieve", <<>>)>>)
    /\ UNCHANGED <<provider, checker, pred, layout, request, mediator, compiler,
                   figure, hierarchy>>

NextSieves == MakeSievesCall \/ SieveCall

SpecSieves == InitSieves /\ [][NextSieves]_vars

\* the default the last evaluation had to compare with: the value, the
\* result of the call of the factory made for this evaluation (the
\* evals-th one), or the result of the factory for the owner object
DefaultAtEvaluation ==
    LET default == sieves.fields[outcome.value.field].default
    IN  CASE default.kind = "DefaultValue" -> default.value
          [] default.kind = "DefaultFactory" ->
                 CallFactory(default.factory, sieves.evals[outcome.value.field] - 1)
          [] default.kind = "DefaultFactoryWithSelf" ->
                 CallFactoryWithSelf(default.factory, outcome.value.obj)

\* C22: a sieve keeps a value exactly when it differs from the default of
\* its field: the value of DefaultValue(v), the result of a call of fn made
\* anew for every evaluation for DefaultFactory(fn), fn(owner object) for
\* DefaultFactoryWithSelf(fn). A sieve is made for a field leaf exactly when
\* the field has a default and omit_default accepts it. With DefaultValue(0)
\* the value 0 is left out and the value 1 is kept.
C22_SieveKeepsNonDefault ==
    /\ CalledOp("make_sieves") =>
           /\ outcome.kind = "return"
           /\ \A i \in DOMAIN sieves.fields :
                  DictHas(outcome.value, <<StrKey(sieves.fields[i].id)>>)
                      <=> /\ sieves.fields[i].default # NoDefault
                          /\ ApplyRc(sieves.omit_default, sieves.fields[i])
           /\ \A k \in DOMAIN outcome.value :
                  \E i \in DOMAIN sieves.fields :
                      outcome.value[k].key = <<StrKey(sieves.fields[i].id)>>
    /\ CalledOp("sieve") =>
           /\ outcome.value.keep <=> outcome.value.value # DefaultAtEvaluation
           /\ \A i \in DOMAIN sieves.fields :
                  sieves.fields[i].default.kind = "DefaultFactory"
                      => sieves.calls[i] = sieves.evals[i]
           /\ sieves.fields[outcome.value.field].default = DefaultValue(0)
                  => /\ outcome.value.value = 0 => ~outcome.value.keep
                     /\ outcome.value.value = 1 => outcome.value.keep

\* the second evaluation of a sieve whose factory gives another value on
\* its second call: the value the first call gave is kept now
C22_Witness ==
    /\ CalledOp("sieve")
    /\ sieves.fields[outcome.value.field].default = DefaultFactory(<<0, MaxData>>)
    /\ sieves.evals[outcome.value.field] = 2
    /\ outcome.value.value = 0
    /\ outcome.value.keep

\* ---------------------------------------------------------------------------
\* BasicClosureCompiler: unique ids from the module-wide ConcurrentCounter
\* ---------------------------------------------------------------------------

\* the threads that compile, and the compile calls of one run
MaxThreads == 2
MaxCalls == 3

Threads == 1..MaxThreads

\* base file names; the second one is what the first one becomes with an
\* index appended
BaseNames == {"f", "f 1"}

\* str(idx) of a non-negative int
Digits == <<"0", "1", "2", "3", "4", "5", "6", "7", "8", "9">>

RECURSIVE Str(_)
Str(n) == IF n < 10 THEN Digits[n + 1] ELSE Str(n \div 10) \o Digits[(n % 10) + 1]

\* the lock is free (0) or held by a thread
LockFree == 0

\* faulty variant: the lock lets every thread in
AcquiresAlways(lock) == TRUE

\* Lock.__enter__: a thread gets the lock only while no thread holds it
Acquires(lock) == lock = LockFree

\* _name_to_idx[name] of the defaultdict: 0 for a name never seen
NameToIdx(name_to_idx, name) == name_to_idx[name]

\* what _get_unique_id makes of the index
FormatUniqueId(base_filename, idx) ==
    IF idx = 0 THEN base_filename ELSE base_filename \o " " \o Str(idx)

\* a thread between two statements of compile; idx and call are meaningful
\* from the statement that sets them on
IdleThread == [pc |-> "idle", base_filename |-> "", idx |-> 0, call |-> 0]

\* ConcurrentCounter() as the module creates it, with the threads and the
\* log of the calls in the order they took the lock
InitCompiler ==
    /\ provider = NoProvider
    /\ checker = NoChecker
    /\ pred = NoPred
    /\ layout = NoLayout
    /\ request = NoRequest
    /\ mediator = NoMediator
    /\ sieves = NoSieves
    /\ compiler = [kind |-> "compiler", lock |-> LockFree,
                   name_to_idx |-> [name \in BaseNames |-> 0],
                   threads |-> [t \in Threads |-> IdleThread],
                   started |-> 0, calls |-> <<>>]
    /\ figure = NoFigure
    /\ hierarchy = NoHierarchy
    /\ outcome = NotCalled

CompilerOnly == UNCHANGED <<provider, checker, pred, layout, request, mediator, sieves,
                            figure, hierarchy>>

SetThread(t, thread) == [compiler.threads EXCEPT ![t] = thread]

\* compile(...) up to the call of generate_idx
Compile(t) ==
    /\ compiler.kind = "compiler"
    /\ compiler.threads[t].pc = "idle"
    /\ compiler.started < MaxCalls
    /\ \E base_filename \in BaseNames :
           compiler' = [compiler EXCEPT
                            !.started = @ + 1,
                            !.threads = SetThread(t, [IdleThread EXCEPT
                                            !.pc = "lock",
                                            !.base_filename = base_filename])]
    /\ UNCHANGED outcome
    /\ CompilerOnly

\* with self._lock:
AcquireLock(t) ==
    /\ compiler.kind = "compiler"
    /\ compiler.threads[t].pc = "lock"
    /\ Acquires(compiler.lock)
    /\ compiler' = [compiler EXCEPT
                        !.lock = t,
                        !.calls = Append(@, [thread |-> t,
                                             base_filename |-> compiler.threads[t].base_filename,
                                             idx |-> -1, id |-> ""]),
                        !.threads = SetThread(t, [compiler.threads[t] EXCEPT
                                        !.pc = "read", !.call = Len(compiler.calls) + 1])]
    /\ UNCHANGED outcome
    /\ CompilerOnly

\* idx = self._name_to_idx[name]
ReadIdx(t) ==
    /\ compiler.kind = "compiler"
    /\ compiler.threads[t].pc = "read"
    /\ LET idx == NameToIdx(compiler.name_to_idx, compiler.threads[t].base_filename)
       IN  compiler' = [compiler EXCEPT
                            !.calls[compiler.threads[t].call].idx = idx,
                            !.threads = SetThread(t, [compiler.threads[t] EXCEPT
                                            !.pc = "increment", !.idx = idx])]
    /\ UNCHANGED outcome
    /\ CompilerOnly

\* self._name_to_idx[name] += 1
IncrementIdx(t) ==
    /\ compiler.kind = "compiler"
    /\ compiler.threads[t].pc = "increment"
    /\ compiler' = [compiler EXCEPT
                        !.name_to_idx[compiler.threads[t].base_filename] = @ + 1,
                        !.threads = SetThread(t, [compiler.threads[t] EXCEPT !.pc = "unlock"])]
    /\ UNCHANGED outcome
    /\ CompilerOnly

\* return idx: the lock is released on the way out of the with block
ReleaseLock(t) ==
    /\ compiler.kind = "compiler"
    /\ compiler.threads[t].pc = "unlock"
    /\ compiler' = [compiler EXCEPT
                        !.lock = LockFree,
                        !.threads = SetThread(t, [compiler.threads[t] EXCEPT !.pc = "format"])]
    /\ UNCHANGED outcome
    /\ CompilerOnly

\* the rest of _get_unique_id, and compile returns with the unique id
GetUniqueId(t) ==
    /\ compiler.kind = "compiler"
    /\ compiler.threads[t].pc = "format"
    /\ LET unique_id == FormatUniqueId(compiler.threads[t].base_filename,
                                       compiler.threads[t].idx)
       IN  /\ compiler' = [compiler EXCEPT
                               !.calls[compiler.threads[t].call].id = unique_id,
                               !.threads = SetThread(t, IdleThread)]
           /\ outcome' = Returned(unique_id, <<Call("compile", <<t>>)>>)
    /\ CompilerOnly

NextCompiler ==
    \E t \in Threads :
        \/ Compile(t)
        \/ AcquireLock(t)
        \/ ReadIdx(t)
        \/ IncrementIdx(t)
        \/ ReleaseLock(t)
        \/ GetUniqueId(t)

SpecCompiler == InitCompiler /\ [][NextCompiler]_vars

\* the calls that took the lock for a base name, in the order they took it
CallsOf(base_filename) ==
    SelectSeq(compiler.calls, LAMBDA c : c.base_filename = base_filename)

\* the calls that have returned
ReturnedCalls == {k \in DOMAIN compiler.calls : compiler.calls[k].id # ""}

\* C23: the calls of _get_unique_id with one base name get the indexes
\* 0, 1, 2, ... in the order they took the lock, whatever the interleaving
\* of the threads: the k-th holder of the lock reads index k - 1, so each
\* index is handed out once; the call with index 0 returns the bare base
\* name, a call with index i > 0 the base name, a space and i; the ids of
\* the calls with one base name are pairwise distinct.
C23_IndexesInLockOrder ==
    compiler.kind = "compiler" =>
        \A base_filename \in BaseNames :
            LET calls == CallsOf(base_filename)
            IN  /\ \A k \in DOMAIN calls :
                       /\ calls[k].idx \in {-1, k - 1}
                       /\ calls[k].idx = -1 => k = Len(calls)
                       /\ calls[k].id # "" =>
                              calls[k].id = IF k = 1 THEN base_filename
                                            ELSE base_filename \o " " \o Str(k - 1)
                /\ \A k, l \in DOMAIN calls :
                       (calls[k].id # "" /\ calls[k].id = calls[l].id) => k = l

\* three calls with one base name have returned, the first two of them made
\* by different threads
C23_Witness ==
    /\ compiler.kind = "compiler"
    /\ Len(CallsOf("f")) = 3
    /\ \A k \in 1..3 : CallsOf("f")[k].id = FormatUniqueId("f", k - 1)
    /\ CallsOf("f")[1].thread # CallsOf("f")[2].thread
    /\ outcome.kind = "return"
    /\ outcome.value = "f 2"

\* C24 as stated: no two compile calls, whatever their base names, are ever
\* given the same unique id
C24_UniqueIdsNeverCollide ==
    compiler.kind = "compiler" =>
        \A k, l \in ReturnedCalls :
            compiler.calls[k].id = compiler.calls[l].id => k = l

\* ---------------------------------------------------------------------------
\* Figures: validation at construction
\* ---------------------------------------------------------------------------

\* the fields of a figure
MaxParams == 3

\* ParamKind: the values of the enum (2 is left for VAR_POS)
POS_ONLY == 0
POS_OR_KW == 1
KW_ONLY == 3

ParamKinds == {POS_ONLY, POS_OR_KW, KW_ONLY}

\* InputField; OutputField and InputFieldRM are used through the same
\* attributes
InputField(name, param_name, is_required, param_kind) ==
    [name |-> name, param_name |-> param_name, is_required |-> is_required,
     is_optional |-> ~is_required, param_kind |-> param_kind]

\* InputField.__post_init__ lets the field be: names are identifiers here
InputFieldValid(fld) == ~(fld.param_kind = POS_ONLY /\ ~fld.is_required)

\* the extra of a figure without a move
FigureNoExtra == [kind |-> "None", fields |-> <<>>]

FigureError(text) == [kind |-> "ValueError", text |-> text, calls |-> <<>>]

Validated == [kind |-> "validated", calls |-> <<>>]

\* faulty variant: the targets of ExtraTargets are not looked at
BaseFigureValidateNamesOnly(fields, extra) ==
    LET field_names == {fields[i].name : i \in DOMAIN fields}
    IN  IF Cardinality(field_names) # Len(fields)
        THEN FigureError("Field names are duplicated")
        ELSE Validated

\* BaseFigure._validate
BaseFigureValidate(fields, extra) ==
    LET field_names == {fields[i].name : i \in DOMAIN fields}
    IN  IF Cardinality(field_names) # Len(fields)
        THEN FigureError("Field names are duplicated")
        ELSE IF extra.kind = "ExtraTargets"
                /\ \E t \in DOMAIN extra.fields : extra.fields[t] \notin field_names
             THEN FigureError("ExtraTargets are attached to non-existing fields")
             ELSE Validated

\* faulty variant: only the first two fields are paired
PairsFirstOnly(fields) ==
    IF Len(fields) < 2 THEN <<>> ELSE <<[past |-> fields[1], current |-> fields[2]]>>

\* pairs(fields), zip(fields, islice(fields, 1, None)): each field with the
\* next one
Pairs(fields) ==
    [k \in 1..(IF Len(fields) = 0 THEN 0 ELSE Len(fields) - 1) |->
        [past |-> fields[k], current |-> fields[k + 1]]]

\* faulty variant: an optional field may be followed by any required one
ValidateOrderKindsOnly(pairs, k) ==
    IF \E i \in DOMAIN pairs : pairs[i].past.param_kind > pairs[i].current.param_kind
    THEN FigureError("Inconsistent order of fields")
    ELSE Validated

\* the loop over the pairs of adjacent fields, from pair k on
RECURSIVE ValidateOrder(_, _)
ValidateOrder(pairs, k) ==
    IF k > Len(pairs)
    THEN Validated
    ELSE LET past == pairs[k].past
             current == pairs[k].current
         IN  IF past.param_kind > current.param_kind
             THEN FigureError("Inconsistent order of fields")
             ELSE IF past.is_optional /\ current.is_required /\ current.param_kind # KW_ONLY
                  THEN FigureError("All not required fields must be after required ones")
                  ELSE ValidateOrder(pairs, k + 1)

\* InputFigure._validate
InputFigureValidate(fields, extra) ==
    LET base == BaseFigureValidate(fields, extra)
        param_names == {fields[i].param_name : i \in DOMAIN fields}
    IN  IF base.kind = "ValueError"
        THEN base
        ELSE IF Cardinality(param_names) # Len(fields)
             THEN FigureError("Param names are duplicated")
             ELSE ValidateOrder(Pairs(fields), 1)

\* InputFieldsFigure.__post_init__: the order of the fields first, then the
\* statements BaseFigure._validate has too
InputFieldsFigurePostInit(fields, extra) ==
    LET order == ValidateOrder(Pairs(fields), 1)
    IN  IF order.kind = "ValueError" THEN order ELSE BaseFigureValidate(fields, extra)

\* the dataclass constructor: __post_init__ raises or the figure is there
Construct(cls, fields, extra, validation) ==
    IF validation.kind = "ValueError"
    THEN validation
    ELSE Returned([cls |-> cls, fields |-> fields, extra |-> extra], <<>>)

FigureClasses == {"InputFigure", "OutputFigure", "InputFieldsFigure"}

FigureNames == {"a", "b", "c"}

FigureExtras ==
    {FigureNoExtra, ExtraKwargs, ExtraTargets(<<"a">>), ExtraTargets(<<"a", "d">>),
     ExtraTargets(<<"b", "c">>)}

FigureArgs(cls, fields, extra) ==
    [kind |-> "args", cls |-> cls, fields |-> fields, extra |-> extra]

FigureInit ==
    /\ provider = NoProvider
    /\ checker = NoChecker
    /\ pred = NoPred
    /\ layout = NoLayout
    /\ request = NoRequest
    /\ mediator = NoMediator
    /\ sieves = NoSieves
    /\ compiler = NoCompiler
    /\ hierarchy = NoHierarchy
    /\ outcome = NotCalled

\* figures of fields that differ in their names and parameter names only;
\* a field of InputFieldsFigure has its field name alone
InitFigureNames ==
    /\ FigureInit
    /\ \E n \in 0..MaxParams :
           \E names \in [1..n -> FigureNames], own_param \in [1..n -> BOOLEAN],
              extra \in FigureExtras, cls \in FigureClasses :
               /\ cls = "InputFieldsFigure" => \A i \in 1..n : own_param[i]
               /\ figure = FigureArgs(cls,
                               [i \in 1..n |->
                                    InputField(names[i],
                                               IF own_param[i] THEN names[i] ELSE "p",
                                               TRUE, POS_OR_KW)],
                               extra)

\* figures of fields with distinct names that differ in kind and in being
\* required
InitFigureOrder ==
    /\ FigureInit
    /\ \E n \in 0..MaxParams :
           \E kinds \in [1..n -> ParamKinds], required \in [1..n -> BOOLEAN],
              cls \in FigureClasses :
               LET fields == [i \in 1..n |->
                                 InputField(FieldId(i), FieldId(i), required[i], kinds[i])]
               IN  /\ cls = "InputFigure" => \A i \in 1..n : InputFieldValid(fields[i])
                   /\ figure = FigureArgs(cls, fields, FigureNoExtra)

FigureOnly == UNCHANGED <<provider, checker, pred, layout, request, mediator, sieves,
                          compiler, figure, hierarchy>>

\* InputFigure(fields=..., extra=..., constructor=...)
InputFigureCall ==
    /\ outcome = NotCalled
    /\ figure.kind = "args"
    /\ figure.cls = "InputFigure"
    /\ outcome' = WithCallsBefore(<<Call("InputFigure", <<>>)>>,
                      Construct(figure.cls, figure.fields, figure.extra,
                                InputFigureValidate(figure.fields, figure.extra)))
    /\ FigureOnly

\* OutputFigure(fields=..., extra=...)
OutputFigureCall ==
    /\ outcome = NotCalled
    /\ figure.kind = "args"
    /\ figure.cls = "OutputFigure"
    /\ outcome' = WithCallsBefore(<<Call("OutputFigure", <<>>)>>,
                      Construct(figure.cls, figure.fields, figure.extra,
                                BaseFigureValidate(figure.fields, figure.extra)))
    /\ FigureOnly

\* InputFieldsFigure(constructor=..., fields=..., extra=...)
InputFieldsFigureCall ==
    /\ outcome = NotCalled
    /\ figure.kind = "args"
    /\ figure.cls = "InputFieldsFigure"
    /\ outcome' = WithCallsBefore(<<Call("InputFieldsFigure", <<>>)>>,
                      Construct(figure.cls, figure.fields, figure.extra,
                                InputFieldsFigurePostInit(figure.fields, figure.extra)))
    /\ FigureOnly

NextFigure == InputFigureCall \/ OutputFigureCall \/ InputFieldsFigureCall

SpecFigureNames == InitFigureNames /\ [][NextFigure]_vars

SpecFigureOrder == InitFigureOrder /\ [][NextFigure]_vars

FigureCalled == outcome.kind # "none" /\ figure.kind = "args"

FigureBuilt == FigureCalled /\ outcome.kind = "return"

InputFigureBuilt == FigureBuilt /\ figure.cls \in {"InputFigure", "InputFieldsFigure"}

DuplicateNames(fields) ==
    \E i, j \in DOMAIN fields : i # j /\ fields[i].name = fields[j].name

DuplicateParamNames(fields) ==
    \E i, j \in DOMAIN fields : i # j /\ fields[i].param_name = fields[j].param_name

DanglingTargets(fields, extra) ==
    /\ extra.kind = "ExtraTargets"
    /\ \E t \in DOMAIN extra.fields :
           \A i \in DOMAIN fields : fields[i].name # extra.fields[t]

\* C25: a figure with duplicate field names, an input figure with duplicate
\* parameter names, or a figure whose ExtraTargets name a field it has not
\* raises ValueError and there is no figure; a figure that was constructed
\* has pairwise distinct field names (and parameter names, for input) and
\* its ExtraTargets name its own fields only, and is made of the arguments.
C25_FigureAllOrNothing ==
    FigureCalled =>
        /\ outcome.kind \in {"return", "ValueError"}
        /\ (\/ DuplicateNames(figure.fields)
            \/ figure.cls = "InputFigure" /\ DuplicateParamNames(figure.fields)
            \/ DanglingTargets(figure.fields, figure.extra))
               => outcome.kind = "ValueError"
        /\ outcome.kind = "return" =>
               /\ outcome.value = [cls |-> figure.cls, fields |-> figure.fields,
                                   extra |-> figure.extra]
               /\ ~DuplicateNames(outcome.value.fields)
               /\ outcome.value.cls # "OutputFigure"
                      => ~DuplicateParamNames(outcome.value.fields)
               /\ ~DanglingTargets(outcome.value.fields, outcome.value.extra)

\* an input figure with distinct field names and a parameter name used
\* twice was refused
C25_Witness ==
    /\ FigureCalled
    /\ figure.cls = "InputFigure"
    /\ Len(figure.fields) >= 2
    /\ ~DuplicateNames(figure.fields)
    /\ ~DanglingTargets(figure.fields, figure.extra)
    /\ DuplicateParamNames(figure.fields)
    /\ outcome.kind = "ValueError"

NotKeywordOnly(fld) == fld.param_kind # KW_ONLY

\* C26 as stated: in a constructed input figure, among the fields that are
\* not keyword-only every optional field comes before every required field
C26_OptionalBeforeRequired ==
    InputFigureBuilt =>
        \A i, j \in DOMAIN outcome.value.fields :
            LET optional == outcome.value.fields[i]
                required == outcome.value.fields[j]
            IN  (/\ NotKeywordOnly(optional) /\ optional.is_optional
                 /\ NotKeywordOnly(required) /\ required.is_required) => i < j

\* C26: in a constructed input figure, among the fields that are not
\* keyword-only every required field comes before every optional field
C26_RequiredBeforeOptional ==
    InputFigureBuilt =>
        \A i, j \in DOMAIN outcome.value.fields :
            LET optional == outcome.value.fields[i]
                required == outcome.value.fields[j]
            IN  (/\ NotKeywordOnly(optional) /\ optional.is_optional
                 /\ NotKeywordOnly(required) /\ required.is_required) => j < i

\* a constructed input figure: a required field, an optional one, and a
\* required keyword-only field after the optional one
C26_Witness ==
    /\ InputFigureBuilt
    /\ Len(outcome.value.fields) = 3
    /\ outcome.value.fields[1].is_required /\ outcome.value.fields[1].param_kind = POS_OR_KW
    /\ outcome.value.fields[2].is_optional /\ outcome.value.fields[2].param_kind = POS_OR_KW
    /\ outcome.value.fields[3].is_required /\ outcome.value.fields[3].param_kind = KW_ONLY

\* C29: the checks of adjacent fields give an order of the whole sequence:
\* in a constructed input figure the parameter kinds never decrease from any
\* field to any later one, and no required field that is not keyword-only
\* comes anywhere after an optional field.
C29_GlobalOrder ==
    InputFigureBuilt =>
        \A i, j \in DOMAIN outcome.value.fields :
            i < j =>
                /\ outcome.value.fields[i].param_kind <= outcome.value.fields[j].param_kind
                /\ ~(/\ outcome.value.fields[i].is_optional
                     /\ outcome.value.fields[j].is_required
                     /\ outcome.value.fields[j].param_kind # KW_ONLY)

\* a constructed input figure of three fields, one of each kind: two
\* required ones around an optional one, the later one keyword-only
C29_Witness ==
    /\ InputFigureBuilt
    /\ Len(outcome.value.fields) = 3
    /\ outcome.value.fields[1].is_required /\ outcome.value.fields[1].param_kind = POS_ONLY
    /\ outcome.value.fields[2].is_optional /\ outcome.value.fields[2].param_kind = POS_OR_KW
    /\ outcome.value.fields[3].is_required /\ outcome.value.fields[3].param_kind = KW_ONLY

\* ---------------------------------------------------------------------------
\* _generate_key over names with underscores and capitals, with a name style
\* ---------------------------------------------------------------------------

\* field ids: no, one and two trailing underscores, leading ones, inner
\* ones, capitals, and the underscore alone
KeyNames == {"a", "b_", "c__", "A_b", "_a_B_", "_"}

NameStyles == {"None", "LOWER"}

\* shapes of distinct fields; the map provider declines for every field,
\* so the path of a field is its generated key
InitKeys ==
    /\ OthersIdle
    /\ provider = NoProvider
    /\ checker = NoChecker
    /\ pred = NoPred
    /\ \E n \in 1..MaxFields :
           \E ids \in [1..n -> KeyNames], trim \in BOOLEAN, name_style \in NameStyles,
              as_list \in BOOLEAN, extra \in BOOLEAN :
               /\ \A i, j \in 1..n : ids[i] = ids[j] => i = j
               /\ layout = Layout([i \in 1..n |->
                                      [id |-> ids[i], is_required |-> TRUE,
                                       is_optional |-> FALSE]],
                                  [i \in 1..n |-> MapDeclines],
                                  StructureSchema(NegRequestChecker(AnyRequestChecker),
                                                  AnyRequestChecker, trim, name_style, as_list),
                                  IF extra THEN ExtraTargets(<<ids[1]>>) ELSE NoExtraMove)
    /\ request = NoRequest
    /\ mediator = NoMediator
    /\ outcome = NotCalled

\* _generate_key(schema, shape, field) for a field of the shape; the call
\* log keeps the position of the field
GenerateKeyCall ==
    /\ outcome = NotCalled
    /\ \E i \in DOMAIN layout.fields :
           outcome' = Returned(GenerateKey(layout.schema, layout.fields, i),
                               <<Call("_generate_key", <<i>>)>>)
    /\ UNCHANGED <<provider, checker, pred, layout, request, mediator, others>>

NextKeys == GenerateKeyCall \/ MapFieldsCall

SpecKeys == InitKeys /\ [][NextKeys]_vars

\* the name without its last character
WithoutLast(name) == SubSeq(name, 1, Len(name) - 1)

\* the name ends in exactly one underscore
EndsInOneUnderscore(name) ==
    /\ Len(name) >= 1
    /\ SubSeq(name, Len(name), Len(name)) = "_"
    /\ Len(name) >= 2 => SubSeq(name, Len(name) - 1, Len(name) - 1) # "_"

\* the key the claim gives the field at position i (from 1)
ClaimedKey(i) ==
    IF layout.schema.as_list
    THEN IntKey(i - 1)
    ELSE LET name == layout.fields[i].id
             trimmed == IF layout.schema.trim_trailing_underscore /\ EndsInOneUnderscore(name)
                        THEN WithoutLast(name)
                        ELSE name
         IN  StrKey(IF layout.schema.name_style = "None"
                    THEN trimmed
                    ELSE ConvertSnakeStyle(trimmed, layout.schema.name_style))

\* the position in the shape of the field of an entry of _map_fields
PositionOf(field) == CHOOSE i \in DOMAIN layout.fields : layout.fields[i] = field

MaxPaths == 3
MaxDepth == 2

SubPathKeys == {StrKey("x"), IntKey(0)}

SubPathInputs == UNION {[1..d -> SubPathKeys] : d \in 1..MaxDepth}

PathsArgs(paths) == [kind |-> "paths", paths |-> paths]

\* the keys of a dict of paths, in its order: distinct paths
InitSubPaths ==
    /\ OthersIdle
    /\ provider = NoProvider
    /\ checker = NoChecker
    /\ pred = NoPred
    /\ \E n \in 1..MaxPaths :
           \E paths \in [1..n -> SubPathInputs] :
               /\ \A i, j \in 1..n : paths[i] = paths[j] => i = j
               /\ layout = PathsArgs(paths)
    /\ request = NoRequest
    /\ mediator = NoMediator
    /\ outcome = NotCalled

\* _get_paths_to_list(request, paths)
GetPathsToListCall ==
    /\ outcome = NotCalled
    /\ layout.kind = "paths"
    /\ outcome' = WithCallsBefore(<<Call("_get_paths_to_list", <<>>)>>,
                                  GetPathsToList(layout.paths))
    /\ UNCHANGED <<provider, checker, pred, layout, request, mediator, others>>

NextSubPaths == GetPathsToListCall

SpecSubPaths == InitSubPaths /\ [][NextSubPaths]_vars

\* the parents of the keys of the paths
ParentsOf(paths) ==
    UNION {{SubSeq(paths[i], 1, k - 1) : k \in 1..Len(paths[i])} : i \in DOMAIN paths}

\* the keys that follow a parent in some path
ChildKeys(paths, parent) ==
    {paths[i][Len(parent) + 1] :
        i \in {j \in DOMAIN paths :
                   /\ Len(paths[j]) > Len(parent)
                   /\ SubSeq(paths[j], 1, Len(parent)) = parent}}

\* some parent has an int child key and a string child key
MixedParents(paths) ==
    {parent \in ParentsOf(paths) :
        /\ \E key \in ChildKeys(paths, parent) : IsInt(key)
        /\ \E key \in ChildKeys(paths, parent) : ~IsInt(key)}

\* the paths in another order
Reordered(paths, order) == [i \in DOMAIN paths |-> paths[order[i]]]

\* the items of a dict, whatever their order
Items(d) == {d[i] : i \in DOMAIN d}

\* C28: _get_paths_to_list fails with the terminal, demonstrative
\* "Inconsistent path elements" error exactly when some parent path has both
\* an int child key and a string child key, and otherwise returns, for every
\* parent with int child keys, the set of these keys. Whether it fails and
\* what it returns is the same for every order of the paths: the early exit
\* of _iterate_sub_paths hides no conflict. (The parent the error names is
\* one with mixed child keys.)
C28_MixedKeysRejectedInAnyOrder ==
    CalledOp("_get_paths_to_list") =>
        /\ MixedParents(layout.paths) # {} <=>
               /\ FailsTerminalDemonstrative
               /\ ErrorText = "Inconsistent path elements at {sub_path}"
        /\ outcome.kind = "CannotProvide" =>
               outcome.error.message.details \in MixedParents(layout.paths)
        /\ MixedParents(layout.paths) = {} =>
               /\ outcome.kind = "return"
               /\ Items(outcome.value) =
                      {[key |-> parent,
                        value |-> {key.int : key \in ChildKeys(layout.paths, parent)}] :
                          parent \in {p \in ParentsOf(layout.paths) :
                                          \E key \in ChildKeys(layout.paths, p) : IsInt(key)}}
        /\ \A order \in Permutations(DOMAIN layout.paths) :
               LET other == GetPathsToList(Reordered(layout.paths, order))
               IN  /\ other.kind = outcome.kind
                   /\ other.kind = "return" => Items(other.value) = Items(outcome.value)

\* the walk up the second path stops at once at a pair the first path
\* yielded; the third path then gives the root, which has a string child
\* key, a list index
C28_Witness ==
    /\ CalledOp("_get_paths_to_list")
    /\ layout.paths = <<(<<StrKey("x"), StrKey("x")>>), (<<StrKey("x")>>), (<<IntKey(0)>>)>>
    /\ SubPathsOf(layout.paths[2], 1, Range(SubPathsOf(layout.paths[1], 2, {}))) = <<>>
    /\ FailsTerminalDemonstrative
    /\ outcome.error.message.details = <<>>

\* ---------------------------------------------------------------------------
\* MultiInheritanceFactory: the recipe and the recursion resolving of the
\* bases of a factory class
\* ---------------------------------------------------------------------------

\* the direct bases of a factory class, and the frames the interpreter
\* allows a call to nest before it raises RecursionError
MaxBases == 3
RecursionLimit == 4

RaisedRecursionError(calls) == [kind |-> "RecursionError", calls |-> calls]

RaisedAttributeError(calls) == [kind |-> "AttributeError", calls |-> calls]

\* what an abstract method returns when it is called: the body is `pass`
PyNone == [kind |-> "None"]

RecursionResolving(to_dict) == [kind |-> "RecursionResolving", to_dict |-> to_dict]

\* a direct base of the class of self: whether it is a subclass of
\* MultiInheritanceFactory, and what its _get_raw_config_recipe and
\* _get_raw_recursion_resolving return (None where the base leaves the
\* abstract method of MultiInheritanceFactory in place)
BaseClass(is_factory, raw_config_recipe, raw_recursion_resolving) ==
    [is_factory |-> is_factory, raw_config_recipe |-> raw_config_recipe,
     raw_recursion_resolving |-> raw_recursion_resolving]

\* issubclass(base, MultiInheritanceFactory)
IsSubclassOfMultiInheritanceFactory(base) == base.is_factory

\* type(self): the class of a factory instance
FactoryClass(bases) == [kind |-> "class", bases |-> bases]

\* MultiInheritanceFactory._get_config_recipe(self), `depth` frames deep,
\* from the k-th base on: base._get_config_recipe(self) is this method
\* again, for the same self
RECURSIVE GetConfigRecipe(_, _, _, _)
GetConfigRecipe(self, k, result, depth) ==
    IF depth > RecursionLimit
    THEN RaisedRecursionError(<<>>)
    ELSE IF k > Len(self.bases)
         THEN Returned(result, <<>>)
         ELSE IF IsSubclassOfMultiInheritanceFactory(self.bases[k])
              THEN LET recipe == GetConfigRecipe(self, 1, <<>>, depth + 1)
                   IN  IF recipe.kind # "return"
                       THEN recipe
                       ELSE GetConfigRecipe(self, k + 1, result \o recipe.value, depth)
              ELSE GetConfigRecipe(self, k + 1, result, depth)

\* result.update(d)
RECURSIVE DictUpdate(_, _, _)
DictUpdate(result, d, i) ==
    IF i > Len(d) THEN result ELSE DictUpdate(DictSet(result, d[i].key, d[i].value), d, i + 1)

\* MultiInheritanceFactory._get_recursion_resolving(self), from the k-th
\* base down to the first
RECURSIVE GetRecursionResolving(_, _, _)
GetRecursionResolving(self, k, result) ==
    IF k < 1
    THEN Returned(RecursionResolving(result), <<>>)
    ELSE IF IsSubclassOfMultiInheritanceFactory(self.bases[k])
         THEN LET raw == self.bases[k].raw_recursion_resolving
              IN  IF raw = PyNone
                  THEN RaisedAttributeError(<<>>)
                  ELSE GetRecursionResolving(self, k - 1, DictUpdate(result, raw.to_dict, 1))
         ELSE GetRecursionResolving(self, k - 1, result)

\* the bases of the runs: a base that is no factory (as StaticProvider),
\* and factories with their raw recipe and raw recursion resolving
RawRecipes == {<<>>, <<"p1">>, <<"p1", "p2">>}

RawResolvings ==
    {PyNone,
     RecursionResolving(<<[key |-> "k1", value |-> "left"]>>),
     RecursionResolving(<<[key |-> "k2", value |-> "right"],
                          [key |-> "k1", value |-> "right"]>>)}

BaseClasses ==
    {BaseClass(FALSE, <<>>, PyNone)}
        \cup {BaseClass(TRUE, recipe, resolving) :
                 recipe \in RawRecipes, resolving \in RawResolvings}

\* a class with a MultiInheritanceFactory among its bases
InitFactory ==
    /\ provider = NoProvider
    /\ checker = NoChecker
    /\ pred = NoPred
    /\ layout = NoLayout
    /\ request = NoRequest
    /\ mediator = NoMediator
    /\ sieves = NoSieves
    /\ compiler = NoCompiler
    /\ figure = NoFigure
    /\ \E n \in 1..MaxBases :
           \E bases \in [1..n -> BaseClasses] :
               /\ \E i \in 1..n : bases[i].is_factory
               /\ hierarchy = FactoryClass(bases)
    /\ outcome = NotCalled

\* self._get_config_recipe()
GetConfigRecipeCall ==
    /\ outcome = NotCalled
    /\ hierarchy.kind = "class"
    /\ outcome' = WithCallsBefore(<<Call("_get_config_recipe", <<>>)>>,
                                  GetConfigRecipe(hierarchy, 1, <<>>, 1))
    /\ UNCHANGED <<provider, checker, pred, layout, request, mediator, sieves, compiler,
                   figure, hierarchy>>

\* self._get_recursion_resolving()
GetRecursionResolvingCall ==
    /\ outcome = NotCalled
    /\ hierarchy.kind = "class"
    /\ outcome' = WithCallsBefore(<<Call("_get_recursion_resolving", <<>>)>>,
                                  GetRecursionResolving(hierarchy, Len(hierarchy.bases), <<>>))
    /\ UNCHANGED <<provider, checker, pred, layout, request, mediator, sieves, compiler,
                   figure, hierarchy>>

NextFactory == GetConfigRecipeCall \/ GetRecursionResolvingCall

SpecFactory == InitFactory /\ [][NextFactory]_vars

\* the raw recipes of the bases that are factories, from base k on
RECURSIVE RawRecipesFrom(_)
RawRecipesFrom(k) ==
    IF k > Len(hierarchy.bases)
    THEN <<>>
    ELSE (IF hierarchy.bases[k].is_factory THEN hierarchy.bases[k].raw_config_recipe ELSE <<>>)
             \o RawRecipesFrom(k + 1)

\* the bases that are factories and define the key
DefiningBases(key) ==
    {k \in DOMAIN hierarchy.bases :
        /\ hierarchy.bases[k].is_factory
        /\ hierarchy.bases[k].raw_recursion_resolving # PyNone
        /\ DictHas(hierarchy.bases[k].raw_recursion_resolving.to_dict, key)}

\* C30 as stated: _get_config_recipe ends by returning the raw recipes of
\* the bases that are MultiInheritanceFactory classes, concatenated in the
\* order of the bases, each once; _get_recursion_resolving ends by returning
\* a resolving that has, for a key several bases define, the entry of the
\* leftmost of them.
C30_RecipesOfBasesInOrder ==
    /\ CalledOp("_get_config_recipe") =>
           /\ outcome.kind = "return"
           /\ outcome.value = RawRecipesFrom(1)
    /\ CalledOp("_get_recursion_resolving") =>
           /\ outcome.kind = "return"
           /\ \A key \in {"k1", "k2"} :
                  DefiningBases(key) # {} =>
                      LET leftmost == CHOOSE k \in DefiningBases(key) :
                                          \A l \in DefiningBases(key) : k <= l
                      IN  /\ DictHas(outcome.value.to_dict, key)
                          /\ DictGet(outcome.value.to_dict, key) =
                                 DictGet(hierarchy.bases[leftmost].raw_recursion_resolving.to_dict,
                                         key)

====
